---- MODULE Spec2Model ----
(***************************************************************************)
(* Caching and resilience fabric of the availability aggregator:           *)
(*   RequestBatcherService   (request-batcher.service.ts)                  *)
(*   CircuitBreakerService   (circuit-breaker.service.ts)                  *)
(*   checkRateLimit          (http-alquila-tu-cancha.client.ts)            *)
(*   GetAvailabilityHandler  (get-availability.handler.ts) over            *)
(*   AdvancedCacheService / RedisService                                   *)
(* Each component has its own specification; the variables of the other    *)
(* components stay at their initial values in it.                          *)
(***************************************************************************)
EXTENDS Integers, Sequences, FiniteSets, TLC

VARIABLES
  \* RequestBatcherService
  pendingRequests,   \* Map<string, Promise>: key -> promise id or NoPromise
  batchTimers,       \* Map<string, Timeout>: the batch ids that have a timer
  promises,          \* the requestPromise objects that are still pending
  bcall,             \* one record per caller of executeBatched
  \* process clock (Date.now(), milliseconds)
  now,
  \* CircuitBreakerService
  state, failureCount, lastFailureTime,
  cbcall,            \* one record per caller of execute
  openedAt,          \* history: time of the last transition into OPEN
  halfOpenSuccesses, \* history: primaries that succeeded in this HALF_OPEN
  streak,            \* history: primaries that failed since the last success
  \* rate limiter of HTTPAlquilaTuCanchaClient
  requestCount, lastResetTime,
  rlcall,            \* one record per caller of checkRateLimit
  admitsPrev,        \* history: admissions at the previous clock reading
  admitsNow,         \* history: admissions at the current clock reading
  winStart,          \* history: the reset that started the observed window
  winAdmits,         \* history: admissions inside the observed window
  observer,          \* which admission history is kept: "none", "window",
                     \* "rolling" or "endpoints"
  \* RedisService / AdvancedCacheService / GetAvailabilityHandler
  isConnected,       \* RedisService.isConnected
  store,             \* content of the Redis database: key -> entry or Absent
  query,             \* one record per running GetAvailabilityHandler.execute
  cacheCall,         \* the running call of an AdvancedCacheService method
  written,           \* history: per cache target, the payload of the last
                     \* complete setWithIntelligentTTL and the seconds since
  setCalls,          \* history: the setWithIntelligentTTL calls made so far
  evcall,            \* one record per running EventsController.receiveEvent
  eventMetrics,      \* EventsController.eventMetrics
  \* HTTPAlquilaTuCanchaClient and the functions it composes
  keygen,            \* the arguments and results of two key generations
  conc,              \* the running RequestBatcherService.executeConcurrent
  build,             \* the running getAvailabilityOptimized and the tree
                     \* fetchOptimizedAvailability builds from its answer
  client             \* the running getClubs / getCourts / getAvailableSlots
                     \* calls, their upstream requests and the prefetch

batcherVars == <<pendingRequests, batchTimers, promises, bcall>>
breakerVars == <<state, failureCount, lastFailureTime, cbcall, openedAt,
                 halfOpenSuccesses, streak>>
limiterVars == <<requestCount, lastResetTime, rlcall, admitsPrev, admitsNow,
                 winStart, winAdmits, observer>>
handlerVars == <<isConnected, store, query>>
cacheVars == <<cacheCall, written, setCalls>>
eventVars == <<evcall, eventMetrics>>
clientVars == <<keygen, conc, build, client>>
vars == <<pendingRequests, batchTimers, promises, bcall, now,
          state, failureCount, lastFailureTime, cbcall, openedAt,
          halfOpenSuccesses, streak,
          requestCount, lastResetTime, rlcall, admitsPrev, admitsNow,
          winStart, winAdmits, observer,
          isConnected, store, query,
          cacheCall, written, setCalls, evcall, eventMetrics,
          keygen, conc, build, client>>

(***************************************************************************)
(* Bounds                                                                  *)
(***************************************************************************)
MaxCallers == 3      \* concurrent callers of executeBatched
MaxSlots == 2        \* concurrent callers of CircuitBreakerService.execute
MaxWaiters == 2      \* concurrent callers of checkRateLimit
MaxQueries == 2      \* concurrent GetAvailabilityHandler.execute calls
StartTime == 60000   \* Date.now() when the services are constructed
ClockStep == 30000   \* milliseconds between two readings of the clock
MaxSets == 2         \* setWithIntelligentTTL calls in a behaviour
MaxEvents == 1       \* concurrent EventsController.receiveEvent calls
MaxEventCalls == 2   \* receiveEvent calls in a behaviour
MaxTicks == 5        \* clock readings after StartTime
MaxParams == 2       \* params given to generateKey / generateStaleKey
MaxSegments == 2     \* ':'-separated segments of one param
MaxTasks == 4        \* requests given to executeConcurrent
MaxConcurrency == 3  \* maxConcurrency given to executeConcurrent
MaxClubs == 2        \* clubs in an upstream clubs response
MaxCourts == 2       \* courts in an upstream courts response
MaxClientCalls == 6  \* calls of the client's methods in a behaviour

None == "none"

(***************************************************************************)
(* RequestBatcherService                                                   *)
(***************************************************************************)
Keys == {"clubs:P", "courts:1"}
Callers == 1..MaxCallers
PromiseIds == 1..MaxCallers
NoPromise == 0
FetchValues == {"value1"}
FetchErrors == {"error1"}
FetchOutcomes == FetchValues \cup FetchErrors

\* invoked, first and overlap are history: whether the call invoked
\* requestFn, whether no call for its key was unsettled when it was made, and
\* the callers whose call for its key was unsettled then
IdleCall == [pc |-> "idle", key |-> None, promise |-> NoPromise,
             invoked |-> FALSE, outcome |-> None, first |-> FALSE,
             overlap |-> {}]

BatcherInit ==
  /\ pendingRequests = [k \in Keys |-> NoPromise]
  /\ batchTimers = {}
  /\ promises = [p \in PromiseIds |-> None]
  /\ bcall = [c \in Callers |-> IdleCall]

\* this.pendingRequests.has(key)
HasPendingNever(k) == FALSE

HasPending(k) == pendingRequests[k] # NoPromise

\* a promise object no caller holds: the identity of a new requestPromise
FreshPromise ==
  CHOOSE p \in PromiseIds :
    /\ promises[p] = None
    /\ \A c \in Callers : bcall[c].promise # p

\* the callers whose executeBatched call for k has not settled yet
Unsettled(k) == {d \in Callers : bcall[d].pc = "awaiting" /\ bcall[d].key = k}

\* executeBatched(key, requestFn, batchKey) up to its await, with
\* executeWithBatching inlined: a call that finds an entry returns the
\* registered promise, any other call starts the timer of its batch id,
\* invokes requestFn and registers the promise it returned.
ExecuteBatched(c, k, batchKey) ==
  /\ bcall[c].pc = "idle"
  /\ IF HasPending(k)
     THEN /\ bcall' = [bcall EXCEPT ![c] =
                 [pc |-> "awaiting", key |-> k, promise |-> pendingRequests[k],
                  invoked |-> FALSE, outcome |-> None,
                  first |-> Unsettled(k) = {}, overlap |-> Unsettled(k)]]
          /\ UNCHANGED <<pendingRequests, batchTimers, promises>>
     ELSE LET batchId == IF batchKey = None THEN k ELSE batchKey
              p == FreshPromise
          IN /\ batchTimers' = batchTimers \cup {batchId}
             /\ promises' = [promises EXCEPT ![p] = k]
             /\ pendingRequests' = [pendingRequests EXCEPT ![k] = p]
             /\ bcall' = [bcall EXCEPT ![c] =
                    [pc |-> "awaiting", key |-> k, promise |-> p,
                     invoked |-> TRUE, outcome |-> None,
                     first |-> Unsettled(k) = {},
                     overlap |-> Unsettled(k)]]
  /\ UNCHANGED <<now, breakerVars, limiterVars, handlerVars, cacheVars,
                 eventVars, clientVars>>

\* requestFn's promise settles and the finally block leaves the entry of its
\* key in place
RequestSettlesKeepsEntry(p, o) ==
  /\ promises[p] # None
  /\ promises' = [promises EXCEPT ![p] = None]
  /\ bcall' = [c \in Callers |->
                 IF bcall[c].pc = "awaiting" /\ bcall[c].promise = p
                 THEN [bcall[c] EXCEPT !.pc = "settled", !.outcome = o]
                 ELSE bcall[c]]
  /\ UNCHANGED <<pendingRequests, batchTimers, now, breakerVars, limiterVars,
                 handlerVars, cacheVars, eventVars, clientVars>>

\* requestFn's promise settles with outcome o. The reactions of the shared
\* promise run back to back: the registering call leaves its await, its
\* finally block deletes the entry of its key, and every call that returned
\* the same promise settles with the same outcome.
RequestSettles(p, o) ==
  /\ promises[p] # None
  /\ promises' = [promises EXCEPT ![p] = None]
  /\ pendingRequests' = [pendingRequests EXCEPT ![promises[p]] = NoPromise]
  /\ bcall' = [c \in Callers |->
                 IF bcall[c].pc = "awaiting" /\ bcall[c].promise = p
                 THEN [bcall[c] EXCEPT !.pc = "settled", !.outcome = o]
                 ELSE bcall[c]]
  /\ UNCHANGED <<batchTimers, now, breakerVars, limiterVars, handlerVars, cacheVars,
                 eventVars, clientVars>>

\* cleanup(): every timer is cleared and both maps are emptied; the
\* requests in flight go on and the calls that await them keep waiting
Cleanup ==
  /\ batchTimers' = {}
  /\ pendingRequests' = [k \in Keys |-> NoPromise]
  /\ UNCHANGED <<promises, bcall, now, breakerVars, limiterVars, handlerVars,
                 cacheVars, eventVars, clientVars>>

\* the setTimeout callback of executeWithBatching, BATCH_DELAY later
BatchTimerFires(b) ==
  /\ b \in batchTimers
  /\ batchTimers' = batchTimers \ {b}
  /\ UNCHANGED <<pendingRequests, promises, bcall, now, breakerVars,
                 limiterVars, handlerVars, cacheVars,
                 eventVars, clientVars>>

\* the caller of executeBatched consumes the settled result
BatchedReturns(c) ==
  /\ bcall[c].pc = "settled"
  /\ bcall' = [d \in Callers |->
                 IF d = c THEN IdleCall
                 ELSE [bcall[d] EXCEPT !.overlap = @ \ {c}]]
  /\ UNCHANGED <<pendingRequests, batchTimers, promises, now, breakerVars,
                 limiterVars, handlerVars, cacheVars,
                 eventVars, clientVars>>

(***************************************************************************)
(* Process clock                                                           *)
(***************************************************************************)
MaxTime == StartTime + MaxTicks * ClockStep

\* time passes between two callbacks; the admission history of the limiter
\* moves on with the clock
Tick ==
  /\ now + ClockStep <= MaxTime
  /\ now' = now + ClockStep
  /\ admitsPrev' = admitsNow
  /\ admitsNow' = 0
  /\ UNCHANGED <<batcherVars, breakerVars, requestCount, lastResetTime,
                 rlcall, winStart, winAdmits, observer, handlerVars, cacheVars,
                 eventVars, clientVars>>

(***************************************************************************)
(* CircuitBreakerService                                                   *)
(***************************************************************************)
FAILURE_THRESHOLD == 5
TIMEOUT == 60000
SUCCESS_THRESHOLD == 3

Slots == 1..MaxSlots
PrimaryValue == "primary value"
PrimaryError == "primary error"
FallbackValue == "fallback value"
FallbackError == "fallback error"
BreakerOpenError == "Circuit breaker is OPEN and no fallback provided"
Never == -1

\* startedIn is history: the state in which the operation was invoked
IdleExec == [pc |-> "idle", hasFallback |-> FALSE, invoked |-> FALSE,
             fbCalls |-> 0, primOut |-> None, fbOut |-> None,
             result |-> None, startedIn |-> None]

BreakerInit ==
  /\ state = "CLOSED"
  /\ failureCount = 0
  /\ lastFailureTime = 0
  /\ cbcall = [s \in Slots |-> IdleExec]
  /\ openedAt = Never
  /\ halfOpenSuccesses = 0
  /\ streak = 0

ShouldAttemptResetSeconds == now - lastFailureTime >= TIMEOUT \div 1000

ShouldAttemptReset == now - lastFailureTime >= TIMEOUT

\* the state and counter that onSuccess() leaves
OnSuccessState == IF state = "HALF_OPEN" THEN "CLOSED" ELSE state

\* onFailure() opening the breaker at the first failure
OnFailureStateEager(n) == IF n >= 1 THEN "OPEN" ELSE state

\* the state that onFailure() leaves, n being the incremented failureCount
OnFailureState(n) == IF n >= FAILURE_THRESHOLD THEN "OPEN" ELSE state

\* execute(operation, fallback) up to its first await: an OPEN breaker whose
\* timeout has not elapsed skips the operation and calls the fallback or
\* throws; otherwise the operation is invoked, in HALF_OPEN when the breaker
\* was OPEN.
Execute(s, fb) ==
  /\ cbcall[s].pc = "idle"
  /\ IF state = "OPEN" /\ ~ShouldAttemptReset
     THEN /\ cbcall' = [cbcall EXCEPT ![s] =
                 IF fb
                 THEN [IdleExec EXCEPT !.pc = "fallback", !.hasFallback = TRUE,
                                       !.fbCalls = 1]
                 ELSE [IdleExec EXCEPT !.pc = "done",
                                       !.result = BreakerOpenError]]
          /\ UNCHANGED <<state, halfOpenSuccesses>>
     ELSE /\ state' = IF state = "OPEN" THEN "HALF_OPEN" ELSE state
          /\ halfOpenSuccesses' = IF state = "OPEN" THEN 0
                                  ELSE halfOpenSuccesses
          /\ cbcall' = [cbcall EXCEPT ![s] =
                 [IdleExec EXCEPT !.pc = "primary", !.hasFallback = fb,
                                  !.invoked = TRUE, !.startedIn = state']]
  /\ UNCHANGED <<failureCount, streak, lastFailureTime, openedAt, now,
                 batcherVars,
                 limiterVars, handlerVars, cacheVars,
                 eventVars, clientVars>>

\* await operation() resolves: onSuccess(), return result
PrimaryResolves(s) ==
  /\ cbcall[s].pc = "primary"
  /\ failureCount' = 0
  /\ streak' = 0
  /\ state' = OnSuccessState
  /\ halfOpenSuccesses' = IF state = "HALF_OPEN" THEN halfOpenSuccesses + 1
                          ELSE halfOpenSuccesses
  /\ cbcall' = [cbcall EXCEPT ![s] =
         [@ EXCEPT !.pc = "done", !.primOut = PrimaryValue,
                   !.result = PrimaryValue]]
  /\ UNCHANGED <<lastFailureTime, openedAt, now, batcherVars, limiterVars,
                 handlerVars, cacheVars,
                 eventVars, clientVars>>

\* await operation() rejects: onFailure(), then the fallback is called when
\* there is one and the error is rethrown when there is none
PrimaryRejectsRethrows(s) ==
  /\ cbcall[s].pc = "primary"
  /\ failureCount' = failureCount + 1
  /\ streak' = streak + 1
  /\ lastFailureTime' = now
  /\ state' = OnFailureState(failureCount + 1)
  /\ openedAt' = IF state # "OPEN" /\ state' = "OPEN" THEN now ELSE openedAt
  /\ cbcall' = [cbcall EXCEPT ![s] =
         [@ EXCEPT !.pc = "done", !.primOut = PrimaryError,
                   !.result = PrimaryError]]
  /\ UNCHANGED <<halfOpenSuccesses, now, batcherVars, limiterVars,
                 handlerVars, cacheVars,
                 eventVars, clientVars>>

PrimaryRejects(s) ==
  /\ cbcall[s].pc = "primary"
  /\ failureCount' = failureCount + 1
  /\ streak' = streak + 1
  /\ lastFailureTime' = now
  /\ state' = OnFailureState(failureCount + 1)
  /\ openedAt' = IF state # "OPEN" /\ state' = "OPEN" THEN now ELSE openedAt
  /\ cbcall' = [cbcall EXCEPT ![s] =
         IF cbcall[s].hasFallback
         THEN [@ EXCEPT !.pc = "fallback", !.primOut = PrimaryError,
                        !.fbCalls = @ + 1]
         ELSE [@ EXCEPT !.pc = "done", !.primOut = PrimaryError,
                        !.result = PrimaryError]]
  /\ UNCHANGED <<halfOpenSuccesses, now, batcherVars, limiterVars,
                 handlerVars, cacheVars,
                 eventVars, clientVars>>

\* the promise returned by fallback() settles with outcome o
FallbackSettles(s, o) ==
  /\ cbcall[s].pc = "fallback"
  /\ cbcall' = [cbcall EXCEPT ![s] =
         [@ EXCEPT !.pc = "done", !.fbOut = o, !.result = o]]
  /\ UNCHANGED <<state, failureCount, streak, lastFailureTime,
                 openedAt,
                 halfOpenSuccesses, now, batcherVars, limiterVars,
                 handlerVars, cacheVars,
                 eventVars, clientVars>>

\* the caller of execute consumes the settled result
ExecuteReturns(s) ==
  /\ cbcall[s].pc = "done"
  /\ cbcall' = [cbcall EXCEPT ![s] = IdleExec]
  /\ UNCHANGED <<state, failureCount, streak, lastFailureTime,
                 openedAt,
                 halfOpenSuccesses, now, batcherVars, limiterVars,
                 handlerVars, cacheVars,
                 eventVars, clientVars>>

(***************************************************************************)
(* Rate limiter of HTTPAlquilaTuCanchaClient (checkRateLimit)              *)
(***************************************************************************)
RATE_LIMIT == 60
RATE_WINDOW == 60000

Waiters == 1..MaxWaiters

IdleLimit == [pc |-> "idle", wakeAt |-> 0, delayed |-> FALSE]

LimiterInit(obs) ==
  /\ observer = obs
  /\ requestCount = 0
  /\ lastResetTime = now
  /\ rlcall = [c \in Waiters |-> IdleLimit]
  /\ admitsPrev = 0
  /\ admitsNow = 0
  /\ winStart = now
  /\ winAdmits = 0

\* now - this.lastResetTime >= this.RATE_WINDOW
WindowElapsed == now - lastResetTime >= RATE_WINDOW

\* history: one caller is admitted at the current clock reading, after a
\* reset of the window when reset is TRUE. The observed window is the one
\* that starts at the first reset made after the previous observed window
\* ended.
RecordAdmission(reset) ==
  LET restart == reset /\ now >= winStart + RATE_WINDOW
      start == IF restart THEN now ELSE winStart
      count == IF restart THEN 0 ELSE winAdmits
  IN /\ winStart' = IF observer = "window" THEN start ELSE winStart
     /\ winAdmits' = IF observer = "window" /\ now < start + RATE_WINDOW
                     THEN count + 1
                     ELSE IF observer = "window" THEN count ELSE winAdmits
     /\ admitsNow' = IF observer = "rolling" THEN admitsNow + 1
                     ELSE admitsNow
     /\ UNCHANGED <<admitsPrev, observer>>

\* checkRateLimit() up to its await or, when it does not wait, to its end.
\* The call is made while a wait it may start still ends before MaxTime.
CheckRateLimit(c) ==
  /\ rlcall[c].pc = "idle"
  /\ now + RATE_WINDOW <= MaxTime
  /\ LET count == IF WindowElapsed THEN 0 ELSE requestCount
         reset == IF WindowElapsed THEN now ELSE lastResetTime
     IN IF count >= RATE_LIMIT
        THEN LET waitTime == RATE_WINDOW - (now - reset)
             IN /\ rlcall' = [rlcall EXCEPT ![c] =
                       [pc |-> "waiting", wakeAt |-> now + waitTime,
                        delayed |-> FALSE]]
                /\ requestCount' = count
                /\ lastResetTime' = reset
                /\ UNCHANGED <<admitsPrev, admitsNow, winStart, winAdmits,
                               observer>>
        ELSE /\ requestCount' = count + 1
             /\ lastResetTime' = reset
             /\ rlcall' = [rlcall EXCEPT ![c] = IdleLimit]
             /\ RecordAdmission(WindowElapsed)
  /\ UNCHANGED <<now, batcherVars, breakerVars, handlerVars, cacheVars,
                 eventVars, clientVars>>

\* the setTimeout of checkRateLimit fires and the call continues after its
\* await: requestCount = 0, lastResetTime = Date.now(), requestCount++
WaitNeverEnds(c) ==
  /\ rlcall[c].pc = "waiting"
  /\ FALSE
  /\ UNCHANGED vars

WaitEnds(c) ==
  /\ rlcall[c].pc = "waiting"
  /\ now >= rlcall[c].wakeAt
  /\ requestCount' = 1
  /\ lastResetTime' = now
  /\ rlcall' = [rlcall EXCEPT ![c] = [IdleLimit EXCEPT !.delayed = TRUE]]
  /\ RecordAdmission(TRUE)
  /\ UNCHANGED <<now, batcherVars, breakerVars, handlerVars, cacheVars,
                 eventVars, clientVars>>

(***************************************************************************)
(* RedisService and AdvancedCacheService                                   *)
(***************************************************************************)
CLUBS_TTL == 3600
COURTS_TTL == 1800
SLOTS_TTL == 300
AVAILABILITY_TTL == 180
TTL_CONFIG == [CLUBS |-> CLUBS_TTL, COURTS |-> COURTS_TTL,
               SLOTS |-> SLOTS_TTL, AVAILABILITY |-> AVAILABILITY_TTL]
STALE_TTL == 7200

Null == <<"null">>
Absent == [val |-> Null, ttl |-> 0]

\* generateKey(type, ...params): `${type}:${params.join(':')}`, the string
\* kept as the sequence of its segments
GenerateKey(type, params) == <<type>> \o params

\* generateStaleKey(type, ...params): `${type}:stale:${params.join(':')}`
GenerateStaleKey(type, params) == <<type, "stale">> \o params

\* JSON.stringify and JSON.parse of a payload
Serialize(data) == <<"json", data>>
Parse(text) == text[2]
\* a text JSON.parse throws a SyntaxError on, and the texts it accepts
Garbled == <<"{\"clubs\":[">>
Decodable(text) == Len(text) = 2 /\ text[1] = "json"

\* RedisService.get(key): null while the client is not connected and when
\* the command fails (ok = FALSE), else the value Redis holds
RedisGet(key, ok) ==
  IF isConnected /\ ok /\ store[key] # Absent THEN store[key].val ELSE Null

\* RedisService.set(key, value, ttl): skipped while the client is not
\* connected, nothing is written when the command fails
RedisSet(key, value, ttl, ok) ==
  IF isConnected /\ ok
  THEN [store EXCEPT ![key] = [val |-> value, ttl |-> ttl]]
  ELSE store

\* the 'connect' event of the Redis client
RedisConnects ==
  /\ ~isConnected
  /\ isConnected' = TRUE
  /\ UNCHANGED <<store, query, now, batcherVars, breakerVars, limiterVars,
                 cacheVars, eventVars, clientVars>>

\* the 'close' and 'error' events of the Redis client
RedisCloses ==
  /\ isConnected
  /\ isConnected' = FALSE
  /\ UNCHANGED <<store, query, now, batcherVars, breakerVars, limiterVars,
                 cacheVars, eventVars, clientVars>>

\* the receiveEvent calls in progress
EventCallers == 1..MaxEvents

\* the entries of keys are written: no receiveEvent call in progress has
\* seen them
Forget(keys) ==
  [e \in EventCallers |-> [evcall[e] EXCEPT !.old = @ \ keys]]

\* the content of Redis d seconds later: the entries whose EX time is over
\* have disappeared
Expire(d) ==
  [k \in DOMAIN store |->
     IF store[k] = Absent \/ store[k].ttl <= d THEN Absent
     ELSE [store[k] EXCEPT !.ttl = @ - d]]

\* d seconds pass in Redis, d being the time some entry still has to live
Elapse(d) ==
  /\ \E k \in DOMAIN store : store[k] # Absent /\ store[k].ttl = d
  /\ store' = Expire(d)
  /\ UNCHANGED <<isConnected, query, now, batcherVars, breakerVars,
                 limiterVars, cacheVars, eventVars, clientVars>>

(***************************************************************************)
(* GetAvailabilityHandler                                                  *)
(***************************************************************************)
Queries == 1..MaxQueries
Places == {"P"}
\* query.date, an instant in hours since 2024-06-01T00:00:00Z
Dates == {12}
DayNames == <<"2024-06-01", "2024-06-02", "2024-06-03", "2024-06-04",
              "2024-06-05", "2024-06-06", "2024-06-07", "2024-06-08">>
EmptyTree == <<>>
\* the availability trees the upstream client can assemble
Trees == {EmptyTree, <<"club 1">>}

\* date.toISOString().split('T')[0]: the UTC calendar day of the instant
IsoDay(date) == DayNames[(date \div 24) + 1]

AvailabilityKey(place, date) ==
  GenerateKey("availability", <<place, IsoDay(date)>>)
AvailabilityStaleKey(place, date) ==
  GenerateStaleKey("availability", <<place, IsoDay(date)>>)

\* the placeIds written in getKeysByPattern and invalidateAvailabilityCache
ConfiguredPlaces ==
  {"ChIJoYUAHyvmopUR4xJzVPBE_Lw", "ChIJW9fXNZNTtpURV6VYAumGQOw"}
AllPlaces == ConfiguredPlaces \cup Places
\* clubId and courtId as they appear in a key (String(id))
ClubIds == {"7"}
CourtIds == {"42"}

\* the first segment of the keys of each dataType
TypeName == [CLUBS |-> "clubs", COURTS |-> "courts", SLOTS |-> "slots",
             AVAILABILITY |-> "availability"]
DataTypes == DOMAIN TypeName

\* what the client and the handler cache: clubs per place, courts per club,
\* slots per (club, court, day), composite availability per (place, day)
Targets ==
  {[type |-> "CLUBS", params |-> <<p>>] : p \in AllPlaces}
  \cup {[type |-> "COURTS", params |-> <<c>>] : c \in ClubIds}
  \cup {[type |-> "SLOTS", params |-> <<c, k, IsoDay(d)>>] :
          c \in ClubIds, k \in CourtIds, d \in Dates}
  \cup {[type |-> "AVAILABILITY", params |-> <<p, IsoDay(d)>>] :
          p \in AllPlaces, d \in Dates}

FreshKey(t) == GenerateKey(TypeName[t.type], t.params)
StaleKey(t) == GenerateStaleKey(TypeName[t.type], t.params)

StoreKeys == {FreshKey(t) : t \in Targets} \cup {StaleKey(t) : t \in Targets}

\* isStale is the flag getWithFallback returned to getCachedAvailability;
\* startedAt is history: the number of receiveEvent calls that had returned
\* when execute was called
IdleQuery == [pc |-> "idle", place |-> None, date |-> 0, data |-> Null,
              outcome |-> None, result |-> Null, fetchFailed |-> FALSE,
              staleSeen |-> Null, isStale |-> FALSE, startedAt |-> 0]

HandlerInit ==
  /\ isConnected = FALSE
  /\ store = [k \in StoreKeys |-> Absent]
  /\ query = [q \in Queries |-> IdleQuery]

FreshKeyOf(q) == AvailabilityKey(query[q].place, query[q].date)
StaleKeyOf(q) == AvailabilityStaleKey(query[q].place, query[q].date)

HandlerFrame == UNCHANGED <<now, batcherVars, breakerVars, limiterVars,
                            cacheVars, eventVars, clientVars>>

\* the frame of a step that sends SET key to Redis
HandlerWriteFrame(key, ok) ==
  /\ evcall' = IF isConnected /\ ok THEN Forget({key}) ELSE evcall
  /\ UNCHANGED <<now, batcherVars, breakerVars, limiterVars, cacheVars,
                 eventMetrics, clientVars>>

\* execute(query) is called
StartQuery(q, place, date) ==
  /\ query[q].pc = "idle"
  /\ query' = [query EXCEPT ![q] =
        [IdleQuery EXCEPT !.pc = "readFresh", !.place = place,
                          !.date = date,
                          !.startedAt = eventMetrics.processed
                                        + eventMetrics.errors]]
  /\ UNCHANGED <<isConnected, store>>
  /\ HandlerFrame

\* getCachedAvailability -> getWithFallback(cacheKey, staleKey): the read of
\* the fresh key; a hit is returned by execute
CachedReadFresh(q, ok) ==
  /\ query[q].pc = "readFresh"
  /\ LET freshData == RedisGet(FreshKeyOf(q), ok)
     IN query' = [query EXCEPT ![q] =
          IF freshData # Null
          THEN [@ EXCEPT !.pc = "done", !.outcome = "resolved",
                         !.result = Parse(freshData)]
          ELSE [@ EXCEPT !.pc = "readStale"]]
  /\ UNCHANGED <<isConnected, store>>
  /\ HandlerFrame

\* getWithFallback(cacheKey, staleKey): the read of the stale key; a hit is
\* returned by execute, a miss makes it call fetchOptimizedAvailability
CachedReadStale(q, ok) ==
  /\ query[q].pc = "readStale"
  /\ LET staleData == RedisGet(StaleKeyOf(q), ok)
     IN query' = [query EXCEPT ![q] =
          IF staleData # Null
          THEN [@ EXCEPT !.pc = "done", !.outcome = "resolved",
                         !.isStale = TRUE,
                         !.result = Parse(staleData)]
          ELSE [@ EXCEPT !.pc = "fetching"]]
  /\ UNCHANGED <<isConnected, store>>
  /\ HandlerFrame

\* fetchOptimizedAvailability resolves with the tree built from the answer
\* of httpClient.getAvailabilityOptimized
FetchResolves(q, tree) ==
  /\ query[q].pc = "fetching"
  /\ query' = [query EXCEPT ![q] = [@ EXCEPT !.pc = "writeFresh",
                                             !.data = tree]]
  /\ UNCHANGED <<isConnected, store>>
  /\ HandlerFrame

\* fetchOptimizedAvailability rejects: the catch block of execute calls
\* getFallbackAvailability
FetchRejectsRethrows(q) ==
  /\ query[q].pc = "fetching"
  /\ query' = [query EXCEPT ![q] = [@ EXCEPT !.pc = "done",
                                             !.outcome = "rejected",
                                             !.fetchFailed = TRUE]]
  /\ UNCHANGED <<isConnected, store>>
  /\ HandlerFrame

FetchRejects(q) ==
  /\ query[q].pc = "fetching"
  /\ query' = [query EXCEPT ![q] = [@ EXCEPT !.pc = "fallback",
                                             !.fetchFailed = TRUE]]
  /\ UNCHANGED <<isConnected, store>>
  /\ HandlerFrame

\* cacheAvailabilityResult -> setWithIntelligentTTL: the write of the fresh
\* key with TTL_CONFIG.AVAILABILITY
CacheWriteFresh(q, ok) ==
  /\ query[q].pc = "writeFresh"
  /\ store' = RedisSet(FreshKeyOf(q), Serialize(query[q].data),
                       AVAILABILITY_TTL, ok)
  /\ query' = [query EXCEPT ![q] = [@ EXCEPT !.pc = "writeStale"]]
  /\ UNCHANGED isConnected
  /\ HandlerWriteFrame(FreshKeyOf(q), ok)

\* setWithIntelligentTTL: the write of the stale key with STALE_TTL, after
\* which execute returns optimizedData
CacheWriteStale(q, ok) ==
  /\ query[q].pc = "writeStale"
  /\ store' = RedisSet(StaleKeyOf(q), Serialize(query[q].data), STALE_TTL, ok)
  /\ query' = [query EXCEPT ![q] = [@ EXCEPT !.pc = "done",
                                             !.outcome = "resolved",
                                             !.result = query[q].data]]
  /\ UNCHANGED isConnected
  /\ HandlerWriteFrame(StaleKeyOf(q), ok)

\* getFallbackAvailability -> getWithFallback(staleKey): the stale entry
\* when it is read, else []
FallbackRead(q, ok) ==
  /\ query[q].pc = "fallback"
  /\ LET staleData == RedisGet(StaleKeyOf(q), ok)
     IN query' = [query EXCEPT ![q] =
          [@ EXCEPT !.pc = "done", !.outcome = "resolved",
                    !.staleSeen = staleData,
                    !.result = IF staleData # Null THEN Parse(staleData)
                               ELSE EmptyTree]]
  /\ UNCHANGED <<isConnected, store>>
  /\ HandlerFrame

\* the caller of execute consumes the result
QueryReturns(q) ==
  /\ query[q].pc = "done"
  /\ query' = [query EXCEPT ![q] = IdleQuery]
  /\ UNCHANGED <<isConnected, store>>
  /\ HandlerFrame

(***************************************************************************)
(* AdvancedCacheService, one caller at a time                              *)
(***************************************************************************)
Payloads == Trees
\* the rejection of an awaited call
Throws == <<"throws">>
NoKey == <<>>
NoTarget == [type |-> None, params |-> <<>>]
NoWrite == [val |-> Null, age |-> 0]
NullResult == [data |-> Null, isStale |-> FALSE]

\* one target per dataType
CacheTargets ==
  {t \in Targets :
     /\ t.type = "CLUBS" =>
          t.params[1] = CHOOSE p \in ConfiguredPlaces : TRUE
     /\ t.type = "AVAILABILITY" => t.params[1] \in Places}

\* the patterns invalidateByPattern is called with: literal keys,
\* 'clubs:*', 'clubs:stale:*' and `availability:${placeId}:*`
Patterns ==
  {FreshKey(t) : t \in CacheTargets} \cup {StaleKey(t) : t \in CacheTargets}
  \cup {<<"clubs", "*">>, <<"clubs", "stale", "*">>}
  \cup {<<"availability", p, "*">> : p \in Places}

\* a key matches a pattern when it equals it or, the pattern ending in *,
\* when it starts with the segments before the *
Matches(key, pattern) ==
  IF pattern[Len(pattern)] = "*"
  THEN /\ Len(key) >= Len(pattern)
       /\ SubSeq(key, 1, Len(pattern) - 1)
            = SubSeq(pattern, 1, Len(pattern) - 1)
  ELSE key = pattern

\* getKeysByPattern(pattern): commonPatterns[pattern] || []
GetKeysByPattern(pattern) ==
  IF pattern = <<"clubs", "*">>
  THEN {GenerateKey("clubs", <<p>>) : p \in ConfiguredPlaces}
  ELSE {}

\* RedisService.del(key): skipped while the client is not connected, nothing
\* is deleted when the command fails
RedisDel(key, ok) ==
  IF isConnected /\ ok THEN [store EXCEPT ![key] = Absent] ELSE store

\* the store after invalidateByPattern(pattern), oks being the keys whose
\* DEL command succeeds
InvalidateStore(pattern, oks) ==
  [k \in DOMAIN store |->
     IF k \in GetKeysByPattern(pattern) THEN RedisDel(k, k \in oks)[k]
     ELSE store[k]]

\* the outcomes of `await this.redisService.get(key)`: the value Redis
\* holds; null after an error that RedisService.get caught; a rejection,
\* which the catch block of getWithFallback handles
ReadOutcomes == {"value", "error", "reject"}
ReadResult(key, r) ==
  IF r = "reject" THEN Throws ELSE RedisGet(key, r = "value")

IdleCacheCall ==
  [op |-> "idle", pc |-> "idle", target |-> NoTarget, withStale |-> FALSE,
   data |-> Null, pattern |-> NoKey, freshSeen |-> Null, staleSeen |-> Null,
   result |-> NullResult, kvOk |-> TRUE]

CacheInit ==
  /\ cacheCall = IdleCacheCall
  /\ written = [t \in Targets |-> NoWrite]
  /\ setCalls = 0

CacheFrame == UNCHANGED <<now, batcherVars, breakerVars, limiterVars, query,
                          eventVars, isConnected, clientVars>>
\* the calls other than setWithIntelligentTTL do not count
NoSetCall == UNCHANGED setCalls

\* setWithIntelligentTTL(key, data, dataType, staleKey?) is called
SetWithIntelligentTTL(t, v, ws) ==
  /\ cacheCall.pc = "idle"
  /\ setCalls < MaxSets
  /\ setCalls' = setCalls + 1
  /\ cacheCall' = [IdleCacheCall EXCEPT !.op = "set", !.pc = "setFresh",
                                        !.target = t, !.withStale = ws,
                                        !.data = v]
  /\ written' = [written EXCEPT ![t] = NoWrite]
  /\ UNCHANGED store
  /\ CacheFrame

\* setWithIntelligentTTL: redisService.set(key, serializedData, ttl)
SetFreshWritten(ok) ==
  /\ cacheCall.pc = "setFresh"
  /\ store' = RedisSet(FreshKey(cacheCall.target), Serialize(cacheCall.data),
                       TTL_CONFIG[cacheCall.target.type], ok)
  /\ cacheCall' = [cacheCall EXCEPT
        !.pc = IF cacheCall.withStale THEN "setStale" ELSE "done",
        !.kvOk = isConnected /\ ok]
  /\ UNCHANGED written
  /\ NoSetCall
  /\ CacheFrame

\* setWithIntelligentTTL: redisService.set(staleKey, serializedData,
\* STALE_TTL)
SetStaleWrittenShortLived(ok) ==
  /\ cacheCall.pc = "setStale"
  /\ store' = RedisSet(StaleKey(cacheCall.target), Serialize(cacheCall.data),
                       TTL_CONFIG[cacheCall.target.type], ok)
  /\ cacheCall' = [cacheCall EXCEPT !.pc = "done",
                                    !.kvOk = @ /\ isConnected /\ ok]
  /\ written' = [written EXCEPT ![cacheCall.target] =
        IF cacheCall.kvOk /\ isConnected /\ ok
        THEN [val |-> cacheCall.data, age |-> 0] ELSE NoWrite]
  /\ NoSetCall
  /\ CacheFrame

SetStaleWritten(ok) ==
  /\ cacheCall.pc = "setStale"
  /\ store' = RedisSet(StaleKey(cacheCall.target), Serialize(cacheCall.data),
                       STALE_TTL, ok)
  /\ cacheCall' = [cacheCall EXCEPT !.pc = "done",
                                    !.kvOk = @ /\ isConnected /\ ok]
  /\ written' = [written EXCEPT ![cacheCall.target] =
        IF cacheCall.kvOk /\ isConnected /\ ok
        THEN [val |-> cacheCall.data, age |-> 0] ELSE NoWrite]
  /\ NoSetCall
  /\ CacheFrame

\* getWithFallback(key, staleKey?) is called
GetWithFallback(t, ws) ==
  /\ cacheCall.pc = "idle"
  /\ cacheCall' = [IdleCacheCall EXCEPT !.op = "get", !.pc = "getFresh",
                                        !.target = t, !.withStale = ws]
  /\ UNCHANGED <<store, written>>
  /\ NoSetCall
  /\ CacheFrame

\* getWithFallback: the read of the fresh key
GetFreshRead(r) ==
  /\ cacheCall.pc = "getFresh"
  /\ LET freshData == ReadResult(FreshKey(cacheCall.target), r)
         seen == [cacheCall EXCEPT !.freshSeen = freshData,
                                   !.kvOk = isConnected /\ r = "value"]
     IN cacheCall' =
          IF freshData = Throws
          THEN [seen EXCEPT !.pc = "done", !.result = NullResult]
          ELSE IF freshData # Null
          THEN IF Decodable(freshData)
               THEN [seen EXCEPT !.pc = "done",
                       !.result = [data |-> Parse(freshData),
                                   isStale |-> FALSE]]
               ELSE [seen EXCEPT !.pc = "done", !.result = NullResult]
          ELSE IF cacheCall.withStale
          THEN [seen EXCEPT !.pc = "getStale"]
          ELSE [seen EXCEPT !.pc = "done", !.result = NullResult]
  /\ UNCHANGED <<store, written>>
  /\ NoSetCall
  /\ CacheFrame

\* getWithFallback: the read of the stale key
GetStaleReadUnflagged(r) ==
  /\ cacheCall.pc = "getStale"
  /\ LET staleData == ReadResult(StaleKey(cacheCall.target), r)
         seen == [cacheCall EXCEPT !.staleSeen = staleData,
                                   !.kvOk = @ /\ isConnected /\ r = "value"]
     IN cacheCall' =
          IF staleData = Throws \/ staleData = Null
             \/ ~Decodable(staleData)
          THEN [seen EXCEPT !.pc = "done", !.result = NullResult]
          ELSE [seen EXCEPT !.pc = "done",
                  !.result = [data |-> Parse(staleData), isStale |-> FALSE]]
  /\ UNCHANGED <<store, written>>
  /\ NoSetCall
  /\ CacheFrame

GetStaleRead(r) ==
  /\ cacheCall.pc = "getStale"
  /\ LET staleData == ReadResult(StaleKey(cacheCall.target), r)
         seen == [cacheCall EXCEPT !.staleSeen = staleData,
                                   !.kvOk = @ /\ isConnected /\ r = "value"]
     IN cacheCall' =
          IF staleData = Throws \/ staleData = Null
             \/ ~Decodable(staleData)
          THEN [seen EXCEPT !.pc = "done", !.result = NullResult]
          ELSE [seen EXCEPT !.pc = "done",
                  !.result = [data |-> Parse(staleData), isStale |-> TRUE]]
  /\ UNCHANGED <<store, written>>
  /\ NoSetCall
  /\ CacheFrame

\* the payload of the fresh entry of t is replaced in Redis by a text that
\* is not JSON (a truncated or foreign write); the entry keeps its EX time
FreshPayloadCorrupted(t) ==
  /\ cacheCall.pc = "idle"
  /\ store[FreshKey(t)] # Absent
  /\ store[FreshKey(t)].val # Garbled
  /\ store' = [store EXCEPT ![FreshKey(t)].val = Garbled]
  /\ written' = [written EXCEPT ![t] = NoWrite]
  /\ UNCHANGED cacheCall
  /\ NoSetCall
  /\ CacheFrame

\* invalidateByPattern(pattern): DEL of every key getKeysByPattern returns
InvalidateByPattern(pattern, oks) ==
  /\ cacheCall.pc = "idle"
  /\ store' = InvalidateStore(pattern, oks)
  /\ cacheCall' = [IdleCacheCall EXCEPT
        !.op = "invalidate", !.pc = "done", !.pattern = pattern,
        !.kvOk = isConnected /\ GetKeysByPattern(pattern) \subseteq oks]
  /\ written' = [t \in Targets |->
        IF store'[FreshKey(t)] = store[FreshKey(t)]
           /\ store'[StaleKey(t)] = store[StaleKey(t)]
        THEN written[t] ELSE NoWrite]
  /\ NoSetCall
  /\ CacheFrame

\* the caller consumes the result
CacheCallReturns ==
  /\ cacheCall.pc = "done"
  /\ cacheCall' = IdleCacheCall
  /\ UNCHANGED <<store, written>>
  /\ NoSetCall
  /\ CacheFrame

\* d seconds pass between two calls, d being the time some entry still has
\* to live (a Redis command ends within commandTimeout, 5 s)
TimePasses(d) ==
  /\ cacheCall.pc = "idle"
  /\ \E k \in DOMAIN store : store[k] # Absent /\ store[k].ttl = d
  /\ store' = Expire(d)
  /\ written' = [t \in Targets |->
        IF written[t] = NoWrite THEN NoWrite
        ELSE [written[t] EXCEPT
                !.age = IF @ + d > STALE_TTL THEN STALE_TTL ELSE @ + d]]
  /\ UNCHANGED cacheCall
  /\ NoSetCall
  /\ CacheFrame

(***************************************************************************)
(* EventsController                                                        *)
(***************************************************************************)
DAYS_AHEAD == 7

BookingTypes == {"booking_created", "booking_cancelled"}

\* the bodies ExternalEventSchema accepts; day is the calendar day of
\* slot.datetime
ExternalEvents ==
  {[type |-> ty, clubId |-> c, courtId |-> k, day |-> IsoDay(d)] :
      ty \in BookingTypes, c \in ClubIds, k \in CourtIds, d \in Dates}
  \cup {[type |-> "club_updated", clubId |-> c, courtId |-> None,
         day |-> None] : c \in ClubIds}
  \cup {[type |-> "court_updated", clubId |-> c, courtId |-> k,
         day |-> None] : c \in ClubIds, k \in CourtIds}

\* the entries the model lets the client and the handler cache while events
\* are processed
EventTargets ==
  {t \in Targets :
     /\ t.type = "CLUBS" =>
          t.params[1] \in Places
                          \cup {CHOOSE p \in ConfiguredPlaces : TRUE}
     /\ t.type = "AVAILABILITY" =>
          t.params[1] = CHOOSE p \in ConfiguredPlaces : TRUE}

\* the day receiveEvent runs on
Today == CHOOSE d \in Dates : TRUE
WindowDays == {DayNames[(Today \div 24) + 1 + i] : i \in 0..(DAYS_AHEAD - 1)}

\* invalidateClubCache, invalidateCourtCache, invalidateSlotCache: the
\* patterns they pass to invalidateByPattern, in order
TypePatterns(ev) ==
  IF ev.type = "club_updated"
  THEN << <<"clubs", "*">>, <<"clubs", "stale", "*">>,
          GenerateKey("courts", <<ev.clubId>>),
          GenerateStaleKey("courts", <<ev.clubId>>) >>
  ELSE IF ev.type = "court_updated"
  THEN << GenerateKey("courts", <<ev.clubId>>),
          GenerateStaleKey("courts", <<ev.clubId>>) >>
  ELSE << GenerateKey("slots", <<ev.clubId, ev.courtId, ev.day>>),
          GenerateStaleKey("slots", <<ev.clubId, ev.courtId, ev.day>>) >>

\* invalidateAvailabilityCache -> invalidateCacheForPlace(placeId, date):
\* the patterns passed to invalidateByPattern
AvailabilityPatterns ==
  {GenerateKey("availability", <<p, d>>) :
      p \in ConfiguredPlaces, d \in WindowDays}
  \cup {GenerateStaleKey("availability", <<p, d>>) :
      p \in ConfiguredPlaces, d \in WindowDays}

NoEvent == [type |-> None, clubId |-> None, courtId |-> None, day |-> None]

\* raised, incProcessed, incErrors, old and seq are history: whether an
\* exception was raised while the event was processed, the increments the
\* call made, the keys whose entry was in Redis when the call was made and
\* has not been written since, and the rank of the call among those that
\* have returned
\* runs, after, sets, conn and deleted are history of the runs of
\* invalidateCacheSelectively on their own: how many runs of the same event
\* were made in a row, the store the first of them left, the number of
\* cache writes and the connection state at that run, and whether that run
\* deleted an entry
IdleEvent == [pc |-> "idle", event |-> NoEvent, todo |-> <<>>,
              outcome |-> None, raised |-> FALSE, incProcessed |-> 0,
              incErrors |-> 0, old |-> {}, seq |-> 0,
              runs |-> 0, after |-> <<>>, sets |-> 0, conn |-> FALSE,
              deleted |-> FALSE]

EventsInit ==
  /\ evcall = [e \in EventCallers |-> IdleEvent]
  /\ eventMetrics = [processed |-> 0, errors |-> 0]

EventFrame == UNCHANGED <<now, batcherVars, breakerVars, limiterVars, query,
                          cacheVars, isConnected, clientVars>>

\* the calls of receiveEvent made so far
EventCalls ==
  eventMetrics.processed + eventMetrics.errors
  + Cardinality({e \in EventCallers :
                   evcall[e].pc \in {"publishing", "invalidating",
                                     "availability"}})

\* receiveEvent(externalEvent) up to `await this.eventBus.publish(event)`
ReceiveEvent(e, ev) ==
  /\ evcall[e].pc = "idle"
  /\ EventCalls < MaxEventCalls
  /\ evcall' = [evcall EXCEPT ![e] =
        [IdleEvent EXCEPT !.pc = "publishing", !.event = ev,
                          !.old = {k \in StoreKeys : store[k] # Absent}]]
  /\ UNCHANGED <<eventMetrics, store>>
  /\ EventFrame

\* eventBus.publish resolves: invalidateCacheSelectively starts
PublishResolves(e) ==
  /\ evcall[e].pc = "publishing"
  /\ evcall' = [evcall EXCEPT ![e] =
        [@ EXCEPT !.pc = "invalidating",
                  !.todo = TypePatterns(evcall[e].event)]]
  /\ UNCHANGED <<eventMetrics, store>>
  /\ EventFrame

\* eventBus.publish rejects: the catch block of receiveEvent
PublishRejectsPropagates(e) ==
  /\ evcall[e].pc = "publishing"
  /\ evcall' = [evcall EXCEPT ![e] =
        [@ EXCEPT !.pc = "returned", !.outcome = "rejected",
                  !.raised = TRUE]]
  /\ UNCHANGED <<eventMetrics, store>>
  /\ EventFrame

PublishRejects(e) ==
  /\ evcall[e].pc = "publishing"
  /\ eventMetrics' = [eventMetrics EXCEPT !.errors = @ + 1]
  /\ evcall' = [evcall EXCEPT ![e] =
        [@ EXCEPT !.pc = "returned", !.outcome = "resolved",
                  !.raised = TRUE, !.incErrors = @ + 1,
                  !.seq = eventMetrics.processed + eventMetrics.errors + 1]]
  /\ UNCHANGED store
  /\ EventFrame

\* the keys the next invalidateByPattern call of the type-specific step
\* deletes
PendingKeys(e) ==
  IF evcall[e].todo = <<>> THEN {}
  ELSE GetKeysByPattern(Head(evcall[e].todo))

\* one invalidateByPattern call of the type-specific step; the DEL commands
\* of the keys outside oks fail
EventInvalidates(e, oks) ==
  /\ evcall[e].pc = "invalidating"
  /\ LET pattern == Head(evcall[e].todo)
         rest == Tail(evcall[e].todo)
     IN /\ store' = InvalidateStore(pattern, oks)
        /\ evcall' = [evcall EXCEPT ![e] =
             [@ EXCEPT !.todo = rest,
                       !.pc = IF rest = <<>> THEN "availability"
                              ELSE "invalidating",
                       !.raised = @ \/ (isConnected /\
                          ~(GetKeysByPattern(pattern) \subseteq oks))]]
  /\ UNCHANGED eventMetrics
  /\ EventFrame

\* invalidateAvailabilityCache, then receiveEvent counts the event as
\* processed and returns
EventInvalidatesAvailability(e) ==
  /\ evcall[e].pc = "availability"
  /\ store' = [k \in DOMAIN store |->
        IF \E pattern \in AvailabilityPatterns :
              k \in GetKeysByPattern(pattern)
        THEN RedisDel(k, TRUE)[k] ELSE store[k]]
  /\ eventMetrics' = [eventMetrics EXCEPT !.processed = @ + 1]
  /\ evcall' = [evcall EXCEPT ![e] =
        [@ EXCEPT !.pc = "returned", !.outcome = "resolved",
                  !.incProcessed = @ + 1,
                  !.seq = eventMetrics.processed + eventMetrics.errors + 1]]
  /\ EventFrame

\* the response to the event producer is sent
EventReturns(e) ==
  /\ evcall[e].pc = "returned"
  /\ evcall' = [evcall EXCEPT ![e] = IdleEvent]
  /\ UNCHANGED <<eventMetrics, store>>
  /\ EventFrame

\* the loop of invalidateByPattern stopping after the first entry it deleted
DeleteKeysFirstOnly(st, ks) ==
  LET present == {k \in ks : st[k] # Absent}
  IN IF present = {} \/ ~isConnected THEN st
     ELSE [st EXCEPT ![CHOOSE k \in present : TRUE] = Absent]

\* the loop of invalidateByPattern over the keys ks, on the store st:
\* RedisService.del of each key, skipped while the client is not connected
DeleteKeys(st, ks) ==
  [k \in DOMAIN st |-> IF k \in ks /\ isConnected THEN Absent ELSE st[k]]

\* the invalidateByPattern calls of the patterns of todo, in order
RECURSIVE InvalidateAll(_, _)
InvalidateAll(st, todo) ==
  IF todo = <<>> THEN st
  ELSE InvalidateAll(DeleteKeys(st, GetKeysByPattern(Head(todo))),
                     Tail(todo))

\* the store that invalidateCacheSelectively(ev) leaves when it runs on the
\* store st with no other write in between and every DEL command answered
SelectivelyInvalidated(st, ev) ==
  DeleteKeys(InvalidateAll(st, TypePatterns(ev)),
             UNION {GetKeysByPattern(pattern) :
                      pattern \in AvailabilityPatterns})

\* one run of invalidateCacheSelectively(ev) with no other step in between
InvalidateCacheSelectively(e, ev) ==
  /\ evcall[e].pc = "idle"
  /\ LET done == SelectivelyInvalidated(store, ev)
         again == /\ evcall[e].runs >= 1
                  /\ evcall[e].event = ev
                  /\ evcall[e].sets = setCalls
                  /\ evcall[e].conn = isConnected
     IN /\ store' = done
        /\ evcall' = [evcall EXCEPT ![e] =
             [IdleEvent EXCEPT
                !.event = ev,
                !.runs = IF again THEN 2 ELSE 1,
                !.after = IF again THEN evcall[e].after ELSE done,
                !.sets = setCalls,
                !.conn = isConnected,
                !.deleted = IF again THEN evcall[e].deleted
                            ELSE done # store]]
  /\ UNCHANGED eventMetrics
  /\ EventFrame

\* the entries cached while invalidations run on their own
InvalidationTargets == {t \in Targets : t.type \in {"CLUBS", "COURTS"}}

\* fetchClubsFromAPI, fetchCourtsFromAPI, fetchSlotsFromAPI and
\* cacheAvailabilityResult cache an upstream response:
\* setWithIntelligentTTL(cacheKey, data, dataType, staleKey)
ClientCaches(t, v) ==
  /\ isConnected
  /\ setCalls < MaxSets
  /\ setCalls' = setCalls + 1
  /\ store' = [store EXCEPT
        ![FreshKey(t)] = [val |-> Serialize(v), ttl |-> TTL_CONFIG[t.type]],
        ![StaleKey(t)] = [val |-> Serialize(v), ttl |-> STALE_TTL]]
  /\ evcall' = Forget({FreshKey(t), StaleKey(t)})
  /\ UNCHANGED <<eventMetrics, now, batcherVars, breakerVars, limiterVars,
                 query, cacheCall, written, isConnected, clientVars>>

(***************************************************************************)
(* generateKey / generateStaleKey as functions of their arguments          *)
(***************************************************************************)
\* a string is kept as the sequence of the segments that split(':') gives;
\* the strings a caller can pass as one param
Segments == {"stale", "P"}
ParamStrings == UNION {[1..n -> Segments] : n \in 1..MaxSegments}
ParamLists == UNION {[1..n -> ParamStrings] : n \in 0..MaxParams}
KeyTypes == {"clubs", "courts"}
Tiers == {"fresh", "stale"}
KeyInputs == [tier : Tiers, type : KeyTypes, params : ParamLists]

\* params.join(':'): the segments of the params one after the other; the
\* empty string for no params
RECURSIVE JoinParams(_)
JoinParams(params) ==
  IF params = <<>> THEN <<"">>
  ELSE IF Len(params) = 1 THEN Head(params)
  ELSE Head(params) \o JoinParams(Tail(params))

\* the key of an input: generateKey for the fresh tier, generateStaleKey for
\* the stale tier
KeyOf(in) ==
  IF in.tier = "fresh" THEN GenerateKey(in.type, JoinParams(in.params))
  ELSE GenerateStaleKey(in.type, JoinParams(in.params))

NoInput == [tier |-> None, type |-> None, params |-> <<>>]
IdleKeygen == [pc |-> "idle", a |-> NoInput, b |-> NoInput,
               ka |-> NoKey, kb |-> NoKey]
KeygenInit == keygen = IdleKeygen

\* the keys of two inputs are generated
GenerateKeys ==
  /\ keygen.pc = "args"
  /\ keygen' = [keygen EXCEPT !.pc = "done", !.ka = KeyOf(keygen.a),
                              !.kb = KeyOf(keygen.b)]
  /\ UNCHANGED <<now, batcherVars, breakerVars, limiterVars, handlerVars,
                 cacheVars, eventVars, conc, build, client>>

(***************************************************************************)
(* RequestBatcherService.executeConcurrent, one call at a time             *)
(***************************************************************************)
Tasks == 1..MaxTasks
Hole == <<"hole">>
\* what requests[t]() resolves or rejects with
TaskResult(t) == <<"result", t>>
TaskError(t) == <<"error", t>>
NoError == <<"none">>

\* tasks[t] is the state of the promise requests[t]() returned; executing
\* holds the indices of the promises in the array `executing`; first and
\* firstRejected are the first promise of executing to settle and to reject
\* since the last one was pushed (0: none yet); order is history: the tasks
\* in the order they settled
IdleConc == [pc |-> "idle", n |-> 0, k |-> 0, i |-> 1, j |-> 0, order |-> <<>>,
             tasks |-> [t \in Tasks |-> "unstarted"],
             results |-> [t \in Tasks |-> Hole],
             executing |-> <<>>, first |-> 0, firstRejected |-> 0,
             outcome |-> None, error |-> NoError]
ConcInit == conc = IdleConc

ConcFrame == UNCHANGED <<now, batcherVars, breakerVars, limiterVars,
                         handlerVars, cacheVars, eventVars, keygen, build,
                         client>>

InFlight == {t \in Tasks : conc.tasks[t] = "pending"}

\* executeConcurrent(requests, maxConcurrency) is called with n requests
ExecuteConcurrent(n, k) ==
  /\ conc.pc = "idle"
  /\ conc' = [IdleConc EXCEPT !.pc = "loop", !.n = n, !.k = k]
  /\ ConcFrame

\* the index after the last request the for loop starts before it awaits
LastStarted(c) ==
  IF c.i + (c.k - Len(c.executing)) - 1 < c.n
  THEN c.i + (c.k - Len(c.executing)) - 1 ELSE c.n

\* the for loop starts every remaining request
StartBatchUnlimited ==
  /\ conc.pc = "loop"
  /\ conc' = [conc EXCEPT
        !.tasks = [t \in Tasks |->
                     IF t >= conc.i /\ t <= conc.n THEN "pending" ELSE @[t]],
        !.executing = @ \o [x \in 1..(conc.n - conc.i + 1) |->
                               conc.i + x - 1],
        !.i = conc.n + 1, !.first = 0, !.firstRejected = 0,
        !.pc = "final"]
  /\ ConcFrame

\* the for loop runs without awaiting: it calls request() and pushes the
\* promise until executing holds maxConcurrency promises or the requests
\* are over
StartBatch ==
  /\ conc.pc = "loop"
  /\ LET last == LastStarted(conc)
     IN conc' = [conc EXCEPT
          !.tasks = [t \in Tasks |->
                       IF t >= conc.i /\ t <= last THEN "pending" ELSE @[t]],
          !.executing = @ \o [x \in 1..(last - conc.i + 1) |->
                                 conc.i + x - 1],
          !.i = last + 1, !.first = 0, !.firstRejected = 0,
          !.pc = IF Len(conc.executing) + (last - conc.i + 1) >= conc.k
                 THEN "racing" ELSE "final"]
  /\ ConcFrame

\* the settlement of task t as the promises of executing see it
Settled(c, t, how) ==
  [c EXCEPT !.tasks[t] = how,
            !.order = Append(@, t),
            !.first = IF @ = 0 THEN t ELSE @,
            !.firstRejected = IF @ = 0 /\ how = "rejected" THEN t ELSE @]

\* requests[t]() resolves: its result is appended to results
TaskResolvesAppends(t) ==
  /\ conc.tasks[t] = "pending"
  /\ LET at == 1 + Cardinality({u \in Tasks : conc.results[u] # Hole})
     IN conc' = [Settled(conc, t, "resolved") EXCEPT
                   !.results[at] = TaskResult(t)]
  /\ ConcFrame

\* requests[t]() resolves: `results[i] = result`
TaskResolves(t) ==
  /\ conc.tasks[t] = "pending"
  /\ conc' = [Settled(conc, t, "resolved") EXCEPT
                !.results[t] = TaskResult(t)]
  /\ ConcFrame

\* requests[t]() rejects
TaskRejects(t) ==
  /\ conc.tasks[t] = "pending"
  /\ conc' = Settled(conc, t, "rejected")
  /\ ConcFrame

\* `await Promise.race(executing)` settles as the first promise to settle:
\* a rejection leaves executeConcurrent
RaceSettles ==
  /\ conc.pc = "racing"
  /\ conc.first # 0
  /\ conc' = IF conc.tasks[conc.first] = "rejected"
             THEN [conc EXCEPT !.pc = "done", !.outcome = "rejected",
                               !.error = TaskError(conc.first)]
             ELSE [conc EXCEPT !.pc = "draining",
                               !.j = Len(conc.executing)]
  /\ ConcFrame

\* the inner loop: `await promise` of executing[j], resolved or rejected,
\* then executing.splice(j, 1); after j = 0 the for loop goes on
DrainAwait ==
  /\ conc.pc = "draining"
  /\ conc.tasks[conc.executing[conc.j]] \in {"resolved", "rejected"}
  /\ conc' = [conc EXCEPT
        !.executing = SubSeq(@, 1, conc.j - 1)
                      \o SubSeq(@, conc.j + 1, Len(@)),
        !.j = @ - 1,
        !.pc = IF conc.j = 1 THEN "loop" ELSE "draining"]
  /\ ConcFrame

\* `await Promise.all(executing)` rejects with the first rejection
AllRejects ==
  /\ conc.pc = "final"
  /\ conc.firstRejected # 0
  /\ conc' = [conc EXCEPT !.pc = "done", !.outcome = "rejected",
                          !.error = TaskError(conc.firstRejected)]
  /\ ConcFrame

\* `await Promise.all(executing)` resolves; `return results`
AllResolves ==
  /\ conc.pc = "final"
  /\ \A x \in 1..Len(conc.executing) :
        conc.tasks[conc.executing[x]] = "resolved"
  /\ conc' = [conc EXCEPT !.pc = "done", !.outcome = "resolved"]
  /\ ConcFrame

\* the caller consumes the outcome
ConcurrentReturns ==
  /\ conc.pc = "done"
  /\ conc' = IdleConc
  /\ ConcFrame

(***************************************************************************)
(* getAvailabilityOptimized and fetchOptimizedAvailability as a function   *)
(* of the upstream responses                                               *)
(***************************************************************************)
\* club.id and court.id of the upstream responses
UpstreamClubs == {1, 2}
UpstreamCourts == {10, 11}
\* the slots responses
SlotLists == {<<>>, <<"slot 1">>, <<"slot 1", "slot 2">>}
SeqsUpTo(S, n) == UNION {[1..m -> S] : m \in 0..n}
\* an upstream: the clubs of the place, the courts of each club, the slots
\* of each court on the date
Upstreams ==
  [clubs : SeqsUpTo(UpstreamClubs, MaxClubs),
   courts : [UpstreamClubs -> SeqsUpTo(UpstreamCourts, MaxCourts)],
   slots : [UpstreamClubs \X UpstreamCourts -> SlotLists]]
NoUpstream ==
  [clubs |-> <<>>, courts |-> [c \in UpstreamClubs |-> <<>>],
   slots |-> [x \in UpstreamClubs \X UpstreamCourts |-> <<>>]]

IdleBuild == [pc |-> "idle", upstream |-> NoUpstream, clubs |-> <<>>,
              courts |-> <<>>, allSlots |-> <<>>, slots |-> <<>>,
              tree |-> <<>>]
BuildInit == build = IdleBuild

BuildFrame == UNCHANGED <<now, batcherVars, breakerVars, limiterVars,
                          handlerVars, cacheVars, eventVars, keygen, conc,
                          client>>

\* `clubs = await this.getClubs(placeId)` and
\* `courts = await executeConcurrent(courtsPromises, 5)`, every call
\* answered by the upstream
ClubsAndCourtsFetched ==
  /\ build.pc = "args"
  /\ LET clubs == build.upstream.clubs
     IN build' = [build EXCEPT
          !.pc = "courts", !.clubs = clubs,
          !.courts = [i \in 1..Len(clubs) |->
                        build.upstream.courts[clubs[i]]]]
  /\ BuildFrame

\* slotsPromises: one (club.id, court.id) per court, club after club
RECURSIVE SlotRequests(_, _)
SlotRequests(clubs, courts) ==
  IF clubs = <<>> THEN <<>>
  ELSE [j \in 1..Len(Head(courts)) |-> <<Head(clubs), Head(courts)[j]>>]
       \o SlotRequests(Tail(clubs), Tail(courts))

\* `allSlots = await executeConcurrent(slotsPromises, 10)`
SlotsFetched ==
  /\ build.pc = "courts"
  /\ LET requests == SlotRequests(build.clubs, build.courts)
     IN build' = [build EXCEPT
          !.pc = "slots",
          !.allSlots = [x \in 1..Len(requests) |->
                          build.upstream.slots[requests[x]]]]
  /\ BuildFrame

\* the value of slotIndex when the forEach reaches club i
RECURSIVE SlotIndexAt(_, _)
SlotIndexAt(courts, i) ==
  IF i = 1 THEN 0 ELSE SlotIndexAt(courts, i - 1) + Len(courts[i - 1])

\* as SlotsRegrouped, slotIndex starting again at 0 for every club
SlotsRegroupedPerClub ==
  /\ build.pc = "slots"
  /\ build' = [build EXCEPT
        !.pc = "regrouped",
        !.slots = [i \in 1..Len(build.clubs) |->
                     [j \in 1..Len(build.courts[i]) |->
                        build.allSlots[j]]]]
  /\ BuildFrame

\* slots[clubIndex][courtIndex] = allSlots[slotIndex] || []; slotIndex++
SlotsRegrouped ==
  /\ build.pc = "slots"
  /\ build' = [build EXCEPT
        !.pc = "regrouped",
        !.slots = [i \in 1..Len(build.clubs) |->
                     [j \in 1..Len(build.courts[i]) |->
                        build.allSlots[SlotIndexAt(build.courts, i) + j]]]]
  /\ BuildFrame

\* fetchOptimizedAvailability: clubs.map(club => ({...club, courts:
\* courts[clubIndex].map(court => ({...court, available:
\* slots[clubIndex]?.[courtIndex] || []}))}))
TreeBuilt ==
  /\ build.pc = "regrouped"
  /\ build' = [build EXCEPT
        !.pc = "done",
        !.tree = [i \in 1..Len(build.clubs) |->
                    [id |-> build.clubs[i],
                     courts |->
                       [j \in 1..Len(build.courts[i]) |->
                          [id |-> build.courts[i][j],
                           available |-> build.slots[i][j]]]]]]
  /\ BuildFrame

(***************************************************************************)
(* HTTPAlquilaTuCanchaClient: getClubs, getCourts, getAvailableSlots,      *)
(* getAvailabilityOptimized and the prefetch of courts                     *)
(***************************************************************************)
\* the callers of the client: the running queries
Clients == Queries
\* the caller of the methods when they are called one at a time
FirstClient == CHOOSE c \in Clients : \A d \in Clients : c <= d
\* one place, whose clubs response lists one club, whose courts response
\* lists one court
ClubsTarget == [type |-> "CLUBS", params |-> <<"P">>]
CourtsTarget == [type |-> "COURTS", params |-> <<"7">>]
SlotsTarget ==
  [type |-> "SLOTS", params |-> <<"7", "42", IsoDay(CHOOSE d \in Dates : TRUE)>>]
ClientTargets == {ClubsTarget, CourtsTarget, SlotsTarget}
\* the call getAvailabilityOptimized makes once the call on t has resolved
NextTarget(t) == IF t = ClubsTarget THEN CourtsTarget ELSE SlotsTarget

\* response.data of the upstream for target t
Response(t) == <<"response", t.type>>
\* the AxiosError of a failed request
UpstreamError == <<"AxiosError">>
\* what makes axios reject: a response whose status is not 2xx, be it a
\* 4xx the caller is answerable for (an unknown placeId) or a 5xx
FailureKinds == {"4xx", "5xx"}
\* new Error('No cached data available for clubs' / 'courts' / 'slots')
NoCachedData(t) == <<"No cached data available for", TypeName[t.type]>>

\* flow tells whether the method was called on its own ("single") or by
\* getAvailabilityOptimized ("query"); why is history: "open" when the
\* breaker skipped the operation, "failed" when the operation rejected;
\* freshSeen and staleSeen are what the reads of getWithFallback returned,
\* freshHeld and staleHeld what Redis held under the two keys at that time
\* and kvOk whether the client was connected and both commands succeeded;
\* status is the kind of the failure of the request the operation awaited;
\* usedStale is whether a call of the getAvailabilityOptimized in progress
\* got its data from the stale tier
IdleClient == [pc |-> "idle", flow |-> None, target |-> NoTarget,
               why |-> None, outcome |-> None, result |-> Null,
               freshSeen |-> Null, staleSeen |-> Null,
               freshHeld |-> Null, staleHeld |-> Null, kvOk |-> FALSE,
               status |-> None, usedStale |-> FALSE]

\* the value Redis holds under key, null when it holds none
Held(key) == IF store[key] = Absent THEN Null ELSE store[key].val

\* fetch[t]: pendingRequests holds the key of t and its request is in
\* flight; bgAwaiting: the getCourts calls of prefetchCourtsForClubs that
\* await the courts request; prefetch: a setImmediate callback is queued;
\* history: calls[type] counts the requests sent to each endpoint (kept
\* when observer is "endpoints"), made the calls made from outside,
\* completed the getAvailabilityOptimized calls that returned, fgFailed
\* whether the operation of a caller's call has rejected, bgFailed whether
\* the operation of a prefetch call has
ClientCallsInit ==
  client = [call |-> [c \in Clients |-> IdleClient],
            fetch |-> [t \in ClientTargets |-> FALSE],
            bgAwaiting |-> 0,
            prefetch |-> FALSE,
            calls |-> [CLUBS |-> 0, COURTS |-> 0, SLOTS |-> 0],
            made |-> 0,
            completed |-> 0,
            fgFailed |-> FALSE,
            bgFailed |-> FALSE]

\* what no method of the client touches
ClientFrame ==
  UNCHANGED <<now, batcherVars, cbcall, lastResetTime, rlcall, admitsPrev,
              admitsNow, winStart, winAdmits, observer, query, cacheVars,
              eventVars, keygen, conc, build>>

\* a continuation of getAvailabilityOptimized is queued as a microtask
Continuing ==
  \E c \in Clients :
     client.call[c].pc = "settled" /\ client.call[c].flow = "query"

\* the event loop is free to handle the next I/O event: the microtasks and
\* the setImmediate callbacks have run
LoopIdle == ~Continuing /\ ~client.prefetch

\* the callers whose operation awaits the request of t
Awaiting(t) ==
  {c \in Clients :
     client.call[c].pc = "primary" /\ client.call[c].target = t}

\* circuitBreaker.execute(() => requestBatcher.executeBatched(cacheKey,
\* fetch, batchKey), fallback) up to its first await, on behalf of caller c
\* (0: a prefetch call): an OPEN breaker whose timeout has not elapsed goes
\* to the fallback; else the operation joins the pending request of the
\* key, or passes checkRateLimit and sends a new request. cl is the client
\* record the call finds.
Invoke(c, t, flow, cl) ==
  IF state = "OPEN" /\ ~ShouldAttemptReset
  THEN /\ client' =
            IF c = 0 THEN cl
            ELSE [cl EXCEPT !.call[c] =
                    [IdleClient EXCEPT !.pc = "fallback", !.flow = flow,
                                       !.target = t, !.why = "open",
                                       !.usedStale = cl.call[c].usedStale]]
       /\ UNCHANGED <<state, halfOpenSuccesses, requestCount>>
  ELSE /\ state' = IF state = "OPEN" THEN "HALF_OPEN" ELSE state
       /\ halfOpenSuccesses' = IF state = "OPEN" THEN 0
                               ELSE halfOpenSuccesses
       /\ requestCount' = IF cl.fetch[t] THEN requestCount
                          ELSE requestCount + 1
       /\ LET sent == [cl EXCEPT
                         !.fetch[t] = TRUE,
                         !.calls[t.type] =
                           IF cl.fetch[t] \/ observer # "endpoints" THEN @
                           ELSE @ + 1]
          IN client' =
               IF c = 0 THEN [sent EXCEPT !.bgAwaiting = @ + 1]
               ELSE [sent EXCEPT !.call[c] =
                       [IdleClient EXCEPT !.pc = "primary", !.flow = flow,
                                          !.target = t,
                                          !.usedStale = cl.call[c].usedStale]]

\* getClubs(placeId), getCourts(clubId) or getAvailableSlots(clubId,
\* courtId, date) is called from outside
ClientCall(c, t) ==
  /\ client.call[c].pc = "idle"
  /\ client.made < MaxClientCalls
  /\ requestCount < RATE_LIMIT
  /\ LoopIdle
  /\ Invoke(c, t, "single", [client EXCEPT !.made = @ + 1])
  /\ UNCHANGED <<failureCount, streak, lastFailureTime, openedAt,
                 isConnected, store>>
  /\ ClientFrame

\* getAvailabilityOptimized(placeId, date) is called:
\* `clubs = await this.getClubs(placeId)`
GetAvailabilityOptimized(c) ==
  /\ client.call[c].pc = "idle"
  /\ client.made < MaxClientCalls
  /\ requestCount < RATE_LIMIT
  /\ LoopIdle
  /\ Invoke(c, ClubsTarget, "query", [client EXCEPT !.made = @ + 1])
  /\ UNCHANGED <<failureCount, streak, lastFailureTime, openedAt,
                 isConnected, store>>
  /\ ClientFrame

\* getAvailabilityOptimized goes on after getClubs or getCourts resolved:
\* executeConcurrent calls getCourts for the club, then getAvailableSlots
\* for the court
QueryContinues(c) ==
  /\ client.call[c].pc = "settled"
  /\ client.call[c].flow = "query"
  /\ client.call[c].outcome = "resolved"
  /\ client.call[c].target # SlotsTarget
  /\ requestCount < RATE_LIMIT
  /\ Invoke(c, NextTarget(client.call[c].target), "query", client)
  /\ UNCHANGED <<failureCount, streak, lastFailureTime, openedAt,
                 isConnected, store>>
  /\ ClientFrame

\* getAvailabilityOptimized returns { clubs, courts, slots } once
\* getAvailableSlots resolved, and rejects when one of its calls rejected
AvailabilityOptimizedReturns(c) ==
  /\ client.call[c].pc = "settled"
  /\ client.call[c].flow = "query"
  /\ (client.call[c].outcome = "rejected"
        \/ client.call[c].target = SlotsTarget)
  /\ client' = [client EXCEPT !.call[c] = IdleClient, !.completed = @ + 1]
  /\ UNCHANGED <<breakerVars, requestCount, isConnected, store>>
  /\ ClientFrame

\* the setImmediate callback of prefetchCourtsForClubs runs, after the
\* microtasks of the callers of getClubs: getCourts(club.id) for the club
\* of the response, its result discarded
PrefetchRuns ==
  /\ client.prefetch
  /\ ~Continuing
  /\ requestCount < RATE_LIMIT
  /\ Invoke(0, CourtsTarget, "prefetch", [client EXCEPT !.prefetch = FALSE])
  /\ UNCHANGED <<failureCount, streak, lastFailureTime, openedAt,
                 isConnected, store>>
  /\ ClientFrame

\* setWithIntelligentTTL(cacheKey, data, type, staleKey): the two
\* RedisService.set calls, each skipped while the client is not connected
\* and without effect when its command fails
CachedStore(t, data, okFresh, okStale) ==
  [k \in DOMAIN store |->
     IF k = FreshKey(t) /\ isConnected /\ okFresh
     THEN [val |-> Serialize(data), ttl |-> TTL_CONFIG[t.type]]
     ELSE IF k = StaleKey(t) /\ isConnected /\ okStale
     THEN [val |-> Serialize(data), ttl |-> STALE_TTL]
     ELSE store[k]]

\* the request of t is answered: fetchXFromAPI caches the response, a clubs
\* response queues the prefetch, pendingRequests drops the key, and every
\* execute that awaited the request runs onSuccess() and resolves
UpstreamResponds(t, okFresh, okStale) ==
  /\ client.fetch[t]
  /\ LoopIdle
  /\ store' = CachedStore(t, Response(t), okFresh, okStale)
  /\ failureCount' = 0
  /\ streak' = 0
  /\ state' = OnSuccessState
  /\ halfOpenSuccesses' = IF state = "HALF_OPEN" THEN halfOpenSuccesses + 1
                          ELSE halfOpenSuccesses
  /\ client' = [client EXCEPT
        !.call = [c \in Clients |->
                    IF c \in Awaiting(t)
                    THEN [client.call[c] EXCEPT
                            !.pc = "settled", !.outcome = "resolved",
                            !.result = Response(t)]
                    ELSE client.call[c]],
        !.fetch[t] = FALSE,
        !.bgAwaiting = IF t = CourtsTarget THEN 0 ELSE @,
        !.prefetch = (t = ClubsTarget)]
  /\ UNCHANGED <<lastFailureTime, openedAt, requestCount, isConnected>>
  /\ ClientFrame

\* the request of t fails: fetchXFromAPI rethrows, pendingRequests drops
\* the key, and every execute that awaited the request runs onFailure() and
\* calls its fallback; the prefetch discards what its fallbacks give
UpstreamFails(t, kind) ==
  /\ client.fetch[t]
  /\ LoopIdle
  /\ LET bg == IF t = CourtsTarget THEN client.bgAwaiting ELSE 0
         n == Cardinality(Awaiting(t)) + bg
     IN /\ failureCount' = failureCount + n
        /\ streak' = streak + n
        /\ lastFailureTime' = now
        /\ state' = OnFailureState(failureCount + n)
        /\ openedAt' = IF state # "OPEN" /\ state' = "OPEN" THEN now
                       ELSE openedAt
        /\ client' = [client EXCEPT
              !.call = [c \in Clients |->
                          IF c \in Awaiting(t)
                          THEN [client.call[c] EXCEPT
                                  !.pc = "fallback", !.why = "failed",
                                  !.status = kind]
                          ELSE client.call[c]],
              !.fetch[t] = FALSE,
              !.bgAwaiting = IF t = CourtsTarget THEN 0 ELSE @,
              !.fgFailed = @ \/ Awaiting(t) # {},
              !.bgFailed = @ \/ bg > 0]
  /\ UNCHANGED <<halfOpenSuccesses, requestCount, isConnected, store>>
  /\ ClientFrame

\* the fallback of a method rethrows the error of the upstream when nothing
\* is cached
FallbackReadsRethrows(c, okFresh, okStale) ==
  /\ client.call[c].pc = "fallback"
  /\ LoopIdle
  /\ LET t == client.call[c].target
         fresh == RedisGet(FreshKey(t), okFresh)
         stale == IF fresh = Null THEN RedisGet(StaleKey(t), okStale)
                  ELSE Null
         data == IF fresh # Null THEN Parse(fresh)
                 ELSE IF stale # Null THEN Parse(stale) ELSE Null
     IN client' = [client EXCEPT !.call[c] =
           [@ EXCEPT !.pc = "settled",
                     !.freshSeen = fresh, !.staleSeen = stale,
                     !.freshHeld = Held(FreshKey(t)),
                     !.staleHeld = Held(StaleKey(t)),
                     !.kvOk = isConnected /\ okFresh /\ okStale,
                     !.usedStale = @ \/ (fresh = Null /\ stale # Null),
                     !.outcome = IF data # Null THEN "resolved"
                                 ELSE "rejected",
                     !.result = IF data # Null THEN data
                                ELSE UpstreamError]]
  /\ UNCHANGED <<breakerVars, requestCount, isConnected, store>>
  /\ ClientFrame

\* the fallback of a method: getWithFallback(cacheKey, staleKey) reads the
\* fresh key, then the stale key when the fresh read gave nothing; the
\* method returns data when there is one and throws 'No cached data
\* available' otherwise
FallbackReads(c, okFresh, okStale) ==
  /\ client.call[c].pc = "fallback"
  /\ LoopIdle
  /\ LET t == client.call[c].target
         fresh == RedisGet(FreshKey(t), okFresh)
         stale == IF fresh = Null THEN RedisGet(StaleKey(t), okStale)
                  ELSE Null
         data == IF fresh # Null THEN Parse(fresh)
                 ELSE IF stale # Null THEN Parse(stale) ELSE Null
     IN client' = [client EXCEPT !.call[c] =
           [@ EXCEPT !.pc = "settled",
                     !.freshSeen = fresh, !.staleSeen = stale,
                     !.freshHeld = Held(FreshKey(t)),
                     !.staleHeld = Held(StaleKey(t)),
                     !.kvOk = isConnected /\ okFresh /\ okStale,
                     !.usedStale = @ \/ (fresh = Null /\ stale # Null),
                     !.outcome = IF data # Null THEN "resolved"
                                 ELSE "rejected",
                     !.result = IF data # Null THEN data
                                ELSE NoCachedData(t)]]
  /\ UNCHANGED <<breakerVars, requestCount, isConnected, store>>
  /\ ClientFrame

\* the caller of a method consumes its settled result
ClientReturns(c) ==
  /\ client.call[c].pc = "settled"
  /\ client.call[c].flow = "single"
  /\ client' = [client EXCEPT !.call[c] = IdleClient]
  /\ UNCHANGED <<breakerVars, requestCount, isConnected, store>>
  /\ ClientFrame

\* the composite entry of the place and day of the queries, and the tree
\* fetchOptimizedAvailability assembles
AvailabilityTarget ==
  [type |-> "AVAILABILITY",
   params |-> <<"P", IsoDay(CHOOSE d \in Dates : TRUE)>>]
AssembledTree == CHOOSE v \in Payloads : v # <<>>

\* GetAvailabilityHandler.execute: getCachedAvailability returned null (it
\* found neither entry, or the client was not connected) and
\* fetchOptimizedAvailability calls getAvailabilityOptimized
HandlerFetches(c) ==
  /\ \/ ~isConnected
     \/ /\ Held(FreshKey(AvailabilityTarget)) = Null
        /\ Held(StaleKey(AvailabilityTarget)) = Null
  /\ GetAvailabilityOptimized(c)

\* getAvailabilityOptimized resolved: cacheAvailabilityResult writes the
\* assembled tree under the availability keys and execute returns it
HandlerCachesResult(c, okFresh, okStale) ==
  /\ client.call[c].pc = "settled"
  /\ client.call[c].flow = "query"
  /\ client.call[c].outcome = "resolved"
  /\ client.call[c].target = SlotsTarget
  /\ store' = CachedStore(AvailabilityTarget, AssembledTree, okFresh, okStale)
  /\ client' = [client EXCEPT !.call[c] = IdleClient, !.completed = @ + 1]
  /\ UNCHANGED <<breakerVars, requestCount, isConnected>>
  /\ ClientFrame

\* getAvailabilityOptimized rejected: the catch block of execute answers
\* with getFallbackAvailability and caches nothing
HandlerFallsBack(c) ==
  /\ client.call[c].pc = "settled"
  /\ client.call[c].flow = "query"
  /\ client.call[c].outcome = "rejected"
  /\ client' = [client EXCEPT !.call[c] = IdleClient, !.completed = @ + 1]
  /\ UNCHANGED <<breakerVars, requestCount, isConnected, store>>
  /\ ClientFrame

\* the 'connect' event of the Redis client while the loop is idle
ClientRedisConnects ==
  /\ LoopIdle
  /\ RedisConnects

(***************************************************************************)
(* Specifications                                                          *)
(***************************************************************************)
\* the services other than the client, after construction
ServicesInit(obs) ==
  /\ now = StartTime
  /\ BatcherInit
  /\ BreakerInit
  /\ LimiterInit(obs)
  /\ HandlerInit
  /\ CacheInit
  /\ EventsInit

ClientInit ==
  /\ KeygenInit
  /\ ConcInit
  /\ BuildInit
  /\ ClientCallsInit

InitObserving(obs) == ServicesInit(obs) /\ ClientInit

Init == InitObserving("none")
InitWindow == InitObserving("window")
InitRolling == InitObserving("rolling")
InitEndpoints == InitObserving("endpoints")

NextBatcher ==
  \/ \E c \in Callers, k \in Keys, b \in {None} \cup Keys :
        ExecuteBatched(c, k, b)
  \/ \E p \in PromiseIds, o \in FetchOutcomes : RequestSettles(p, o)
  \/ \E b \in Keys : BatchTimerFires(b)
  \/ \E c \in Callers : BatchedReturns(c)

\* executeBatched calls interleaved with cleanup() calls
NextBatcherCleanup ==
  \/ NextBatcher
  \/ Cleanup

SpecBatcherCleanup == Init /\ [][NextBatcherCleanup]_vars

NextBreaker ==
  \/ \E s \in Slots, fb \in BOOLEAN : Execute(s, fb)
  \/ \E s \in Slots : PrimaryResolves(s)
  \/ \E s \in Slots : PrimaryRejects(s)
  \/ \E s \in Slots, o \in {FallbackValue, FallbackError} :
        FallbackSettles(s, o)
  \/ \E s \in Slots : ExecuteReturns(s)
  \/ Tick

NextLimiter ==
  \/ \E c \in Waiters : CheckRateLimit(c)
  \/ \E c \in Waiters : WaitEnds(c)
  \/ Tick

NextHandler ==
  \/ \E q \in Queries, p \in Places, d \in Dates : StartQuery(q, p, d)
  \/ \E q \in Queries, ok \in BOOLEAN : CachedReadFresh(q, ok)
  \/ \E q \in Queries, ok \in BOOLEAN : CachedReadStale(q, ok)
  \/ \E q \in Queries, t \in Trees : FetchResolves(q, t)
  \/ \E q \in Queries : FetchRejects(q)
  \/ \E q \in Queries, ok \in BOOLEAN : CacheWriteFresh(q, ok)
  \/ \E q \in Queries, ok \in BOOLEAN : CacheWriteStale(q, ok)
  \/ \E q \in Queries, ok \in BOOLEAN : FallbackRead(q, ok)
  \/ \E q \in Queries : QueryReturns(q)
  \/ RedisConnects
  \/ RedisCloses
  \/ \E d \in {AVAILABILITY_TTL, STALE_TTL, STALE_TTL - AVAILABILITY_TTL} :
        Elapse(d)

SpecBatcher == Init /\ [][NextBatcher]_vars
SpecBreaker == Init /\ [][NextBreaker]_vars
\* the limiter with the admissions of the observed fixed window counted
SpecLimiterWindow == InitWindow /\ [][NextLimiter]_vars
\* the limiter with the admissions of two successive clock readings counted
SpecLimiterRolling == InitRolling /\ [][NextLimiter]_vars
\* the limiter with time passing and every timer firing
SpecLimiterFair ==
  /\ Init /\ [][NextLimiter]_vars
  /\ WF_vars(Tick)
  /\ \A c \in Waiters : WF_vars(WaitEnds(c))
SpecHandler == Init /\ [][NextHandler]_vars

NextCache ==
  \/ \E t \in CacheTargets, v \in Payloads, ws \in BOOLEAN :
        SetWithIntelligentTTL(t, v, ws)
  \/ \E ok \in BOOLEAN : SetFreshWritten(ok)
  \/ \E ok \in BOOLEAN : SetStaleWritten(ok)
  \/ \E t \in CacheTargets, ws \in BOOLEAN : GetWithFallback(t, ws)
  \/ \E r \in ReadOutcomes : GetFreshRead(r)
  \/ \E r \in ReadOutcomes : GetStaleRead(r)
  \/ \E pat \in Patterns : \E oks \in SUBSET GetKeysByPattern(pat) :
        InvalidateByPattern(pat, oks)
  \/ CacheCallReturns
  \/ RedisConnects
  \/ RedisCloses
  \/ \E k \in StoreKeys : TimePasses(store[k].ttl)

SpecCache == Init /\ [][NextCache]_vars

\* the cache service on a Redis whose payloads can be corrupted
NextCacheCorrupted ==
  \/ NextCache
  \/ \E t \in CacheTargets : FreshPayloadCorrupted(t)

SpecCacheCorrupted == Init /\ [][NextCacheCorrupted]_vars

BookingEvents == {ev \in ExternalEvents : ev.type \in BookingTypes}

\* queries of a configured place while booking events arrive, the GET and
\* SET commands of the queries succeeding
NextEventsQueries ==
  \/ \E q \in Queries, d \in Dates :
        StartQuery(q, CHOOSE p \in ConfiguredPlaces : TRUE, d)
  \/ \E q \in Queries : CachedReadFresh(q, TRUE)
  \/ \E q \in Queries : CachedReadStale(q, TRUE)
  \/ \E q \in Queries, t \in Trees : FetchResolves(q, t)
  \/ \E q \in Queries : FetchRejects(q)
  \/ \E q \in Queries : CacheWriteFresh(q, TRUE)
  \/ \E q \in Queries : CacheWriteStale(q, TRUE)
  \/ \E q \in Queries : FallbackRead(q, TRUE)
  \/ \E q \in Queries : QueryReturns(q)
  \/ RedisConnects
  \/ \E e \in EventCallers : \E ev \in BookingEvents : ReceiveEvent(e, ev)
  \/ \E e \in EventCallers : PublishResolves(e)
  \/ \E e \in EventCallers : PublishRejects(e)
  \/ \E e \in EventCallers : \E oks \in SUBSET PendingKeys(e) :
        EventInvalidates(e, oks)
  \/ \E e \in EventCallers : EventInvalidatesAvailability(e)
  \/ \E e \in EventCallers : EventReturns(e)

SpecEventsQueries == Init /\ [][NextEventsQueries]_vars

\* two key generations with any arguments
InitKeys ==
  /\ ServicesInit("none")
  /\ ConcInit
  /\ BuildInit
  /\ ClientCallsInit
  /\ \E a \in KeyInputs, b \in KeyInputs :
        keygen = [IdleKeygen EXCEPT !.pc = "args", !.a = a, !.b = b]

NextKeys == GenerateKeys

SpecKeys == InitKeys /\ [][NextKeys]_vars

NextConcurrent ==
  \/ \E n \in 0..MaxTasks, k \in 1..MaxConcurrency : ExecuteConcurrent(n, k)
  \/ StartBatch
  \/ \E t \in Tasks : TaskResolves(t)
  \/ \E t \in Tasks : TaskRejects(t)
  \/ RaceSettles
  \/ DrainAwait
  \/ AllRejects
  \/ AllResolves
  \/ ConcurrentReturns

SpecConcurrent == Init /\ [][NextConcurrent]_vars

\* one query fetched from any upstream
InitBuild ==
  /\ ServicesInit("none")
  /\ KeygenInit
  /\ ConcInit
  /\ ClientCallsInit
  /\ \E u \in Upstreams :
        build = [IdleBuild EXCEPT !.pc = "args", !.upstream = u]

NextBuild ==
  \/ ClubsAndCourtsFetched
  \/ SlotsFetched
  \/ SlotsRegrouped
  \/ TreeBuilt

SpecBuild == InitBuild /\ [][NextBuild]_vars

\* the methods of the client called from outside one call at a time, any
\* upstream and any Redis
NextClient ==
  \/ \E t \in ClientTargets : ClientCall(FirstClient, t)
  \/ \E t \in ClientTargets, okFresh, okStale \in BOOLEAN :
        UpstreamResponds(t, okFresh, okStale)
  \/ \E t \in ClientTargets, kind \in FailureKinds : UpstreamFails(t, kind)
  \/ \E okFresh, okStale \in BOOLEAN :
        FallbackReads(FirstClient, okFresh, okStale)
  \/ ClientReturns(FirstClient)
  \/ PrefetchRuns
  \/ ClientRedisConnects

SpecClient == Init /\ [][NextClient]_vars

\* queries on a freshly started system whose upstream answers every
\* request and whose Redis accepts every command it is sent
NextClientQueries ==
  \/ \E c \in Clients : GetAvailabilityOptimized(c)
  \/ \E c \in Clients : QueryContinues(c)
  \/ \E c \in Clients : AvailabilityOptimizedReturns(c)
  \/ PrefetchRuns
  \/ \E t \in ClientTargets : UpstreamResponds(t, TRUE, TRUE)

SpecClientQueries == InitEndpoints /\ [][NextClientQueries]_vars

NextEvents ==
  \/ \E e \in EventCallers, ev \in ExternalEvents : ReceiveEvent(e, ev)
  \/ \E e \in EventCallers : PublishResolves(e)
  \/ \E e \in EventCallers : PublishRejects(e)
  \/ \E e \in EventCallers : \E oks \in SUBSET PendingKeys(e) :
        EventInvalidates(e, oks)
  \/ \E e \in EventCallers : EventInvalidatesAvailability(e)
  \/ \E e \in EventCallers : EventReturns(e)
  \/ \E t \in EventTargets : ClientCaches(t, CHOOSE v \in Payloads : v # <<>>)
  \/ RedisConnects
  \/ RedisCloses

SpecEvents == Init /\ [][NextEvents]_vars

\* runs of invalidateCacheSelectively between cache writes
NextInvalidation ==
  \/ \E ev \in ExternalEvents :
        InvalidateCacheSelectively(CHOOSE e \in EventCallers : TRUE, ev)
  \/ \E t \in InvalidationTargets :
        ClientCaches(t, CHOOSE v \in Payloads : v # <<>>)
  \/ RedisConnects

SpecInvalidation == Init /\ [][NextInvalidation]_vars

\* the handler's queries on an upstream that can fail
NextQueryWrites ==
  \/ HandlerFetches(FirstClient)
  \/ QueryContinues(FirstClient)
  \/ \E okFresh, okStale \in BOOLEAN :
        HandlerCachesResult(FirstClient, okFresh, okStale)
  \/ HandlerFallsBack(FirstClient)
  \/ \E t \in ClientTargets, okFresh, okStale \in BOOLEAN :
        UpstreamResponds(t, okFresh, okStale)
  \/ \E t \in ClientTargets, kind \in FailureKinds : UpstreamFails(t, kind)
  \/ \E okFresh, okStale \in BOOLEAN :
        FallbackReads(FirstClient, okFresh, okStale)
  \/ PrefetchRuns
  \/ ClientRedisConnects

SpecQueryWrites == Init /\ [][NextQueryWrites]_vars

Next ==
  NextBatcherCleanup \/ NextBreaker \/ NextLimiter \/ NextHandler
  \/ NextCacheCorrupted
  \/ NextEvents \/ NextInvalidation \/ NextKeys \/ NextConcurrent
  \/ NextBuild \/ NextClient \/ NextClientQueries \/ NextQueryWrites
Spec == Init /\ [][Next]_vars

(***************************************************************************)
(* Properties                                                              *)
(***************************************************************************)

\* C1: a call of executeBatched made while an earlier call for the same key
\* is unsettled does not invoke requestFn, the first call of such a group
\* invokes it once, and all of them hold the same promise and settle with
\* the same value or the same error.
C1_CoalescedCallsShareOneFetch ==
  \A d \in Callers :
    /\ bcall[d].pc # "idle" => (bcall[d].invoked <=> bcall[d].first)
    /\ \A c \in bcall[d].overlap :
         /\ ~bcall[d].invoked
         /\ bcall[d].promise = bcall[c].promise
         /\ bcall[d].pc = bcall[c].pc
         /\ bcall[d].outcome = bcall[c].outcome

\* two overlapping calls have both settled with the error of the one fetch
C1_Witness ==
  \E d \in Callers : \E c \in bcall[d].overlap :
    /\ bcall[d].pc = "settled" /\ bcall[c].pc = "settled"
    /\ bcall[d].outcome \in FetchErrors
    /\ bcall[c].invoked

\* C2: the failure that brings failureCount to FAILURE_THRESHOLD or more
\* leaves the breaker OPEN, and no execute call made less than TIMEOUT after
\* the breaker opened invokes its primary.
C2_OpensAtThresholdAndSuppresses ==
  [][/\ (failureCount' = failureCount + 1
           /\ failureCount' >= FAILURE_THRESHOLD) => state' = "OPEN"
     /\ \A s \in Slots :
          (/\ state = "OPEN" /\ now - openedAt < TIMEOUT
           /\ cbcall[s].pc = "idle" /\ cbcall'[s].pc # "idle")
          => (~cbcall'[s].invoked /\ state' = "OPEN")]_vars

\* the fifth failure in a row has opened the breaker and a call made before
\* the timeout has skipped its primary
C2_Witness ==
  /\ state = "OPEN" /\ failureCount = FAILURE_THRESHOLD
  /\ now - openedAt < TIMEOUT
  /\ \E s \in Slots : cbcall[s].pc \in {"fallback", "done"}
                      /\ ~cbcall[s].invoked

\* C3: a primary that succeeds in HALF_OPEN leaves the breaker HALF_OPEN
\* until SUCCESS_THRESHOLD primaries have succeeded in HALF_OPEN.
C3_StaysHalfOpenUntilSuccessThreshold ==
  [][(/\ state = "HALF_OPEN"
      /\ halfOpenSuccesses' = halfOpenSuccesses + 1
      /\ halfOpenSuccesses' < SUCCESS_THRESHOLD) => state' = "HALF_OPEN"]_vars

\* C4: a primary that rejects while the breaker is HALF_OPEN leaves it OPEN
\* with the time of that failure recorded.
C4_HalfOpenFailureReopens ==
  [][(state = "HALF_OPEN" /\ failureCount' = failureCount + 1)
       => (state' = "OPEN" /\ lastFailureTime' = now)]_vars

\* C5: an execute call made TIMEOUT or more after the breaker opened, the
\* breaker being still OPEN, moves it to HALF_OPEN and invokes its primary.
C5_FirstCallAfterTimeoutProbes ==
  [][\A s \in Slots :
       (/\ state = "OPEN" /\ now >= openedAt + TIMEOUT
        /\ cbcall[s].pc = "idle" /\ cbcall'[s].pc # "idle")
       => (state' = "HALF_OPEN" /\ cbcall'[s].invoked)]_vars

\* C6: a finished execute call returned the primary's value without calling
\* the fallback when its primary resolved; called the fallback once and
\* returned its outcome when the primary rejected or was skipped; and
\* without a fallback rejected with the breaker-open error when the primary
\* was skipped and with the primary's error when it rejected.
C6_ExecuteOutcome ==
  \A s \in Slots :
    LET r == cbcall[s] IN
      /\ r.fbCalls <= 1
      /\ r.pc = "done" =>
           IF r.invoked /\ r.primOut = PrimaryValue
           THEN r.result = PrimaryValue /\ r.fbCalls = 0
           ELSE IF r.hasFallback
           THEN /\ r.fbCalls = 1
                /\ r.result = r.fbOut
                /\ r.fbOut \in {FallbackValue, FallbackError}
           ELSE IF ~r.invoked
           THEN r.result = BreakerOpenError /\ r.fbCalls = 0
           ELSE /\ r.primOut = PrimaryError
                /\ r.result = PrimaryError /\ r.fbCalls = 0

\* a call that was skipped by the OPEN breaker returned its fallback's value
C6_Witness ==
  \E s \in Slots :
    /\ cbcall[s].pc = "done" /\ cbcall[s].hasFallback
    /\ ~cbcall[s].invoked /\ cbcall[s].result = FallbackValue

\* C7: at most RATE_LIMIT callers are admitted in the window of RATE_WINDOW
\* that starts at a reset of the window.
C7_WindowAdmitsAtMostLimit == winAdmits <= RATE_LIMIT

\* C8: at most RATE_LIMIT callers are admitted at two successive clock
\* readings, which lie in one interval of length RATE_WINDOW.
C8_RollingWindowAtMostLimit == admitsPrev + admitsNow <= RATE_LIMIT

\* C9: a caller that waits is not admitted before the window boundary it
\* waits for, and every caller that waits is eventually admitted.
C9_EveryCallIsAdmitted ==
  /\ [][\A c \in Waiters :
          (rlcall[c].pc = "waiting" /\ rlcall'[c].pc = "idle")
          => (now >= rlcall[c].wakeAt /\ rlcall'[c].delayed)]_vars
  /\ \A c \in Waiters :
       (rlcall[c].pc = "waiting") ~> (rlcall[c].pc = "idle")

\* every caller has been admitted after waiting for the window boundary
C9_Witness == \A c \in Waiters : rlcall[c].pc = "idle" /\ rlcall[c].delayed

\* C10: a finished execute resolved with an array; when the fetch failed
\* the array is the stale composite entry that Redis returned to the
\* fallback read and the empty array when it returned none.
C10_ExecuteResolvesWithArray ==
  \A q \in Queries :
    query[q].pc = "done" =>
      /\ query[q].outcome = "resolved"
      /\ query[q].result \in Trees
      /\ query[q].fetchFailed =>
           query[q].result = IF query[q].staleSeen # Null
                             THEN Parse(query[q].staleSeen) ELSE EmptyTree

\* a query whose fetch failed has returned the stale composite entry
C10_Witness ==
  \E q \in Queries :
    /\ query[q].pc = "done" /\ query[q].fetchFailed
    /\ query[q].staleSeen # Null
    /\ query[q].result = Parse(query[q].staleSeen)

\* C11: a query is answered with the stale composite entry only when the
\* upstream call made for it failed or the breaker was OPEN.
C11_StaleOnlyAfterUpstreamFailure ==
  \A q \in Queries :
    (query[q].pc = "done" /\ query[q].isStale)
      => (query[q].fetchFailed \/ state = "OPEN")

\* C12: when receiveEvent has handled a booking event, the entries that the
\* slots key of its (clubId, courtId, day) and the stale mirror held when
\* the event arrived are gone, and no step of the call changes a clubs or
\* courts entry.
C12_BookingEventDeletesSlots ==
  [][\A e \in EventCallers :
       (/\ evcall[e].event.type \in BookingTypes
        /\ evcall'[e] # evcall[e])
       => /\ \A k \in StoreKeys :
               k[1] \in {"clubs", "courts"} => store'[k] = store[k]
          /\ (evcall'[e].pc = "returned" /\ evcall'[e].incProcessed = 1)
             => LET ev == evcall[e].event
                    params == <<ev.clubId, ev.courtId, ev.day>>
                IN \A k \in {GenerateKey("slots", params),
                               GenerateStaleKey("slots", params)} :
                     k \in evcall'[e].old => store'[k] = Absent
    ]_vars

\* C13: when receiveEvent has handled club_updated, no clubs entry that was
\* there when the event arrived remains in the fresh or the stale tier for
\* any placeId, nor the courts entry of the club or its stale mirror.
C13_ClubUpdatedDeletesClubsAndCourts ==
  [][\A e \in EventCallers :
       (/\ evcall[e].event.type = "club_updated"
        /\ evcall[e].pc # "returned"
        /\ evcall'[e].pc = "returned" /\ evcall'[e].incProcessed = 1)
       => \A k \in evcall'[e].old :
            (\/ k[1] = "clubs"
             \/ k = GenerateKey("courts", <<evcall[e].event.clubId>>)
             \/ k = GenerateStaleKey("courts", <<evcall[e].event.clubId>>))
            => store'[k] = Absent
    ]_vars

\* C14: when receiveEvent has handled any event, the composite availability
\* entries of every configured placeId and each of the DAYS_AHEAD days from
\* today, and their stale mirrors, that were there when the event arrived
\* are gone.
C14_EventDeletesAvailabilityWindow ==
  [][\A e \in EventCallers :
       (/\ evcall[e].pc # "returned"
        /\ evcall'[e].pc = "returned" /\ evcall'[e].incProcessed = 1)
       => \A k \in evcall'[e].old \cap AvailabilityPatterns :
            store'[k] = Absent
    ]_vars

\* C15: after invalidateByPattern(pattern), its DEL commands having
\* succeeded, no key that matches the pattern is present in Redis.
C15_InvalidateDeletesEveryMatch ==
  (cacheCall.op = "invalidate" /\ cacheCall.pc = "done" /\ cacheCall.kvOk)
    => \A k \in StoreKeys :
         Matches(k, cacheCall.pattern) => store[k] = Absent

\* C16: a query that execute started after receiveEvent returned for a
\* booking event it processed is not answered with a composite availability entry that
\* was in Redis when the event arrived and has not been written since.
C16_NoAnswerFromEntryOlderThanEvent ==
  [][\A q \in Queries : \A e \in EventCallers :
       (/\ evcall[e].pc = "returned"
        /\ evcall[e].event.type \in BookingTypes
        /\ evcall[e].incProcessed = 1
        /\ evcall[e].seq <= query[q].startedAt
        /\ query'[q].pc = "done" /\ query'[q].outcome = "resolved")
       => /\ query[q].pc = "readFresh" => FreshKeyOf(q) \notin evcall[e].old
          /\ query[q].pc = "readStale" => StaleKeyOf(q) \notin evcall[e].old
          /\ (query[q].pc = "fallback" /\ query'[q].staleSeen # Null)
               => StaleKeyOf(q) \notin evcall[e].old]_vars

\* C17: a receiveEvent call that has returned resolved, and incremented
\* exactly one of the counters processed and errors, once.
C17_ReceiveEventResolvesAndCountsOnce ==
  /\ \A e \in EventCallers :
       evcall[e].pc = "returned" =>
         /\ evcall[e].outcome = "resolved"
         /\ evcall[e].incProcessed + evcall[e].incErrors = 1
  /\ \A e \in EventCallers :
       evcall[e].pc # "returned" =>
         evcall[e].incProcessed + evcall[e].incErrors = 0

\* a call returned although a DEL command of its invalidation failed
C17_Witness ==
  \E e \in EventCallers :
    /\ evcall[e].pc = "returned" /\ evcall[e].raised
    /\ evcall[e].incProcessed = 1 /\ evcall[e].outcome = "resolved"

\* C18: a receiveEvent call during which an exception was raised incremented
\* errors and did not count the event as processed.
C18_EveryExceptionCountsAsError ==
  \A e \in EventCallers :
    (evcall[e].pc = "returned" /\ evcall[e].raised)
      => (evcall[e].incErrors = 1 /\ evcall[e].incProcessed = 0)

\* C19: getWithFallback returns the fresh data unflagged when the fresh read
\* returns an entry; else the stale data flagged stale when a stale key is
\* given and its read returns an entry; else, and whenever a read rejects,
\* {null, false}; with every read succeeding the entries read are those
\* present in Redis.
C19_GetWithFallbackResult ==
  (cacheCall.op = "get" /\ cacheCall.pc = "done") =>
    LET fresh == cacheCall.freshSeen
        stale == cacheCall.staleSeen
        inRedis(k) == IF store[k] = Absent THEN Null ELSE store[k].val
    IN /\ cacheCall.result =
            IF fresh = Throws THEN NullResult
            ELSE IF fresh # Null
            THEN [data |-> Parse(fresh), isStale |-> FALSE]
            ELSE IF cacheCall.withStale /\ stale # Null /\ stale # Throws
            THEN [data |-> Parse(stale), isStale |-> TRUE]
            ELSE NullResult
       /\ cacheCall.kvOk =>
            /\ fresh = inRedis(FreshKey(cacheCall.target))
            /\ (fresh = Null /\ cacheCall.withStale)
                 => stale = inRedis(StaleKey(cacheCall.target))

\* the fresh entry being absent, the stale entry was returned flagged stale
C19_Witness ==
  /\ cacheCall.op = "get" /\ cacheCall.pc = "done" /\ cacheCall.kvOk
  /\ store[FreshKey(cacheCall.target)] = Absent
  /\ cacheCall.result.isStale
  /\ cacheCall.result.data \in Payloads

\* C20: with Redis available, getWithFallback(k, s) made after a complete
\* setWithIntelligentTTL(k, v, type, s) and no further write returns
\* {v, false} before TTL_CONFIG[type] seconds have passed, {v, true} from
\* then until STALE_TTL seconds have passed, and {null, false} after.
C20_FreshThenStaleThenGone ==
  LET t == cacheCall.target IN
    (/\ cacheCall.op = "get" /\ cacheCall.pc = "done"
     /\ cacheCall.withStale /\ cacheCall.kvOk
     /\ written[t] # NoWrite)
    => cacheCall.result =
         IF written[t].age < TTL_CONFIG[t.type]
         THEN [data |-> written[t].val, isStale |-> FALSE]
         ELSE IF written[t].age < STALE_TTL
         THEN [data |-> written[t].val, isStale |-> TRUE]
         ELSE NullResult

\* the entry was read as stale after its fresh TTL and before STALE_TTL
C20_Witness ==
  LET t == cacheCall.target IN
    /\ cacheCall.op = "get" /\ cacheCall.pc = "done"
    /\ cacheCall.withStale /\ cacheCall.kvOk
    /\ written[t] # NoWrite
    /\ written[t].age >= TTL_CONFIG[t.type] /\ written[t].age < STALE_TTL
    /\ cacheCall.result = [data |-> written[t].val, isStale |-> TRUE]

\* C21: while no query is between the two writes of cacheAvailabilityResult,
\* a fresh composite availability entry in Redis has its stale mirror in
\* Redis too, with at least as long to live.
C21_FreshEntryHasStaleMirror ==
  (\A q \in Queries : query[q].pc # "writeStale")
  => \A p \in Places, d \in Dates :
       store[AvailabilityKey(p, d)] # Absent
       => /\ store[AvailabilityStaleKey(p, d)] # Absent
          /\ store[AvailabilityStaleKey(p, d)].ttl
               >= store[AvailabilityKey(p, d)].ttl

\* C22: two different inputs (tier, type, params) of generateKey and
\* generateStaleKey never give the same key.
C22_KeysAreInjective ==
  (keygen.pc = "done" /\ keygen.a # keygen.b) => keygen.ka # keygen.kb

\* C23: the tree built for a query lists the clubs in the order of the clubs
\* response, the courts of each club in the order of its courts response,
\* and for each court exactly the slots the upstream returned for that club
\* and court; empty responses give empty lists.
C23_TreeFollowsUpstream ==
  build.pc = "done" =>
    LET u == build.upstream
    IN build.tree =
         [i \in 1..Len(u.clubs) |->
            [id |-> u.clubs[i],
             courts |->
               [j \in 1..Len(u.courts[u.clubs[i]]) |->
                  [id |-> u.courts[u.clubs[i]][j],
                   available |->
                     u.slots[<<u.clubs[i], u.courts[u.clubs[i]][j]>>]]]]]

\* a tree of two clubs with courts, where the first court of the second
\* club has other slots than the first court of the first club
C23_Witness ==
  /\ build.pc = "done"
  /\ Len(build.tree) = 2
  /\ Len(build.tree[1].courts) >= 1 /\ Len(build.tree[2].courts) >= 1
  /\ build.tree[1].courts[1].available # build.tree[2].courts[1].available
  /\ \E j \in 1..Len(build.tree[2].courts) :
        build.tree[2].courts[j].available = <<>>

\* C24: when executeConcurrent has settled and no task has rejected, it has
\* resolved with an array that holds at index i the result of tasks[i] and
\* nothing beyond the last task.
C24_ResultsInTaskOrder ==
  (conc.pc = "done" /\ \A t \in 1..conc.n : conc.tasks[t] # "rejected")
  => /\ conc.outcome = "resolved"
     /\ \A t \in Tasks :
          conc.results[t] = IF t <= conc.n THEN TaskResult(t) ELSE Hole

\* a call with more tasks than maxConcurrency resolved, a task having
\* completed before one that was started before it
C24_Witness ==
  /\ conc.pc = "done" /\ conc.outcome = "resolved"
  /\ conc.n > conc.k /\ conc.k > 1
  /\ \E x \in 1..(Len(conc.order) - 1) : conc.order[x] > conc.order[x + 1]
  /\ \A t \in 1..conc.n : conc.results[t] = TaskResult(t)

\* C25: during executeConcurrent(tasks, k) at most k tasks are started and
\* not yet settled.
C25_AtMostKInFlight ==
  conc.pc # "idle" => Cardinality(InFlight) <= conc.k

\* k tasks are in flight while tasks remain to be started
C25_Witness ==
  /\ conc.pc = "racing"
  /\ Cardinality(InFlight) = conc.k
  /\ conc.i <= conc.n

\* C26: executeConcurrent does not resolve with a result array when a task
\* has rejected.
C26_RejectsWhenATaskRejects ==
  (conc.pc = "done" /\ conc.outcome = "resolved")
  => \A t \in 1..conc.n : conc.tasks[t] # "rejected"

\* C27: while no query has returned, so that the queries made so far for the
\* place and date run concurrently, on a cold cache and with an upstream
\* that answers every request, the clubs endpoint has been called at most
\* once and the upstream at most 1 + |clubs| + sum of |courts| times (one
\* club with one court: 3), the prefetch included.
C27_ConcurrentQueriesFetchOnce ==
  client.completed = 0
  => /\ client.calls.CLUBS <= 1
     /\ client.calls.CLUBS + client.calls.COURTS + client.calls.SLOTS
          <= 1 + 1 + 1

\* C28: once a query has returned on a freshly started system whose
\* upstream and Redis are healthy, the clubs, courts and slots entries of
\* the query are in Redis, fresh and stale.
C28_QueryLeavesEntriesCached ==
  client.completed > 0
  => \A t \in ClientTargets :
       store[FreshKey(t)] # Absent /\ store[StaleKey(t)] # Absent

\* C29: a getClubs / getCourts / getAvailableSlots call never settles with
\* the error of the upstream; a call whose request failed or that found the
\* breaker OPEN resolves with the fresh entry when the fresh read returns
\* one, else with the stale entry when the stale read returns one, else
\* rejects with the no-cached-data error of its method; with Redis connected
\* and both reads succeeding the entries read are those Redis held then.
C29_FallbackNeverSurfacesUpstreamError ==
  \A c \in Clients :
    LET k == client.call[c]
    IN k.pc = "settled" =>
         /\ k.result # UpstreamError
         /\ k.why \in {"failed", "open"} =>
              /\ k.outcome = IF k.freshSeen # Null \/ k.staleSeen # Null
                             THEN "resolved" ELSE "rejected"
              /\ k.result = IF k.freshSeen # Null THEN Parse(k.freshSeen)
                            ELSE IF k.staleSeen # Null
                            THEN Parse(k.staleSeen)
                            ELSE NoCachedData(k.target)
              /\ k.kvOk =>
                   /\ k.freshSeen = k.freshHeld
                   /\ k.freshSeen = Null => k.staleSeen = k.staleHeld

\* the breaker being OPEN, a call found nothing cached and rejected with the
\* no-cached-data error
C29_Witness ==
  \E c \in Clients :
    /\ client.call[c].pc = "settled"
    /\ client.call[c].why = "open"
    /\ client.call[c].kvOk
    /\ client.call[c].outcome = "rejected"
    /\ client.call[c].result = NoCachedData(client.call[c].target)

\* C30: as long as no operation of a caller's own call has rejected, every
\* getClubs / getCourts / getAvailableSlots call of a caller is served by
\* the upstream, whatever happened to the prefetch calls.
C30_PrefetchFailureLeavesCallersAlone ==
  ~client.fgFailed
  => \A c \in Clients :
       client.call[c].pc \in {"fallback", "settled"}
       => client.call[c].why = None

\* C31: a request answered with a 4xx status the caller is answerable for
\* leaves failureCount and the state of the breaker as they were.
C31_ClientErrorNotCounted ==
  [][\A c \in Clients :
       (/\ client.call[c].pc = "primary"
        /\ client'.call[c].pc = "fallback"
        /\ client'.call[c].status = "4xx")
       => (failureCount' = failureCount /\ state' = state)]_vars

\* C37: the failure of one upstream request raises failureCount by exactly
\* one, however many calls awaited that request.
C37_OneFailurePerFetch ==
  [][failureCount' > failureCount => failureCount' = failureCount + 1]_vars

\* C35: a key has an in-flight entry only while the request registered under
\* it is pending, so that the entry is gone once the request has settled by
\* success or by failure; a call made when no call for its key is unsettled
\* invokes its fetch; and with no request pending the in-flight map is empty.
C35_EntryRemovedOnSettle ==
  /\ \A k \in Keys : HasPending(k) => promises[pendingRequests[k]] = k
  /\ \A c \in Callers :
       (bcall[c].pc # "idle" /\ bcall[c].first) => bcall[c].invoked
  /\ (\A p \in PromiseIds : promises[p] = None)
       => \A k \in Keys : ~HasPending(k)

\* after a fetch of the key failed, the next call for the key has invoked
\* its own fetch and registered it
C35_Witness ==
  \E c \in Callers, d \in Callers :
    /\ bcall[d].pc = "settled" /\ bcall[d].outcome \in FetchErrors
    /\ bcall[c].pc = "awaiting" /\ bcall[c].key = bcall[d].key
    /\ bcall[c].invoked
    /\ pendingRequests[bcall[c].key] = bcall[c].promise

\* C39: whatever the interleaving of executeBatched and cleanup() calls, at
\* most one request per key is pending, and the entry of a key is the
\* pending request of that key when there is one.
C39_OneFetchPerKeyDespiteCleanup ==
  \A k \in Keys :
    /\ Cardinality({p \in PromiseIds : promises[p] = k}) <= 1
    /\ HasPending(k) => promises[pendingRequests[k]] = k

\* the execute calls whose operation is unsettled
PrimariesInFlight == {s \in Slots : cbcall[s].pc = "primary"}

\* C32: while the breaker is HALF_OPEN at most one primary operation is in
\* flight: an execute call made while a trial primary is unsettled does not
\* invoke its own primary.
C32_OneTrialInHalfOpen ==
  state = "HALF_OPEN" => Cardinality(PrimariesInFlight) <= 1

\* C33: the breaker goes from CLOSED to OPEN only when the primaries that
\* failed since the last success number FAILURE_THRESHOLD or more, and a
\* primary that succeeds while the breaker is CLOSED leaves it CLOSED with
\* failureCount 0.
C33_OpensAfterThresholdConsecutiveFailures ==
  [][/\ (state = "CLOSED" /\ state' = "OPEN")
          => streak' >= FAILURE_THRESHOLD
     /\ \A s \in Slots :
          (/\ state = "CLOSED"
           /\ cbcall[s].pc = "primary"
           /\ cbcall'[s].pc = "done"
           /\ cbcall'[s].primOut = PrimaryValue)
          => (state' = "CLOSED" /\ failureCount' = 0)]_vars

\* a primary has succeeded after fewer than FAILURE_THRESHOLD failures: the
\* breaker never opened, is CLOSED and counts no failure
C33_Witness ==
  /\ state = "CLOSED"
  /\ failureCount = 0
  /\ streak = 0
  /\ lastFailureTime # 0
  /\ openedAt = Never
  /\ \E s \in Slots :
       cbcall[s].pc = "done" /\ cbcall[s].primOut = PrimaryValue

\* C40: a step from HALF_OPEN to CLOSED is the success of a primary that was
\* invoked while the breaker was HALF_OPEN, and the success of a primary
\* invoked while the breaker was CLOSED, settling after the breaker has
\* opened, changes neither state nor failureCount.
C40_OnlyTrialSuccessCloses ==
  [][\A s \in Slots :
       (/\ cbcall[s].pc = "primary"
        /\ cbcall'[s].pc = "done"
        /\ cbcall'[s].primOut = PrimaryValue)
       => /\ (state = "HALF_OPEN" /\ state' = "CLOSED")
               => cbcall[s].startedIn = "HALF_OPEN"
          /\ (cbcall[s].startedIn = "CLOSED" /\ state # "CLOSED")
               => (state' = state /\ failureCount' = failureCount)]_vars

\* C34: for every event, a second run of its cache invalidation right after
\* the first leaves the key-value store as the first run left it.
C34_InvalidationIdempotent ==
  \A e \in EventCallers :
    (/\ evcall[e].runs = 2
     /\ evcall[e].sets = setCalls
     /\ evcall[e].conn = isConnected) => store = evcall[e].after

\* an invalidation that deleted an entry has run a second time
C34_Witness ==
  \E e \in EventCallers :
    /\ evcall[e].runs = 2
    /\ evcall[e].deleted
    /\ evcall[e].event.type = "club_updated"
    /\ evcall[e].sets = setCalls
    /\ isConnected
    /\ \E k \in StoreKeys : store[k] # Absent

\* C36: when getWithFallback is given a staleKey and reads a fresh payload
\* that cannot be decoded while the stale entry is present and decodable,
\* it returns the stale entry with isStale = true.
C36_UndecodableFreshFallsBackToStale ==
  LET t == cacheCall.target
  IN (/\ cacheCall.op = "get"
      /\ cacheCall.pc = "done"
      /\ cacheCall.withStale
      /\ cacheCall.freshSeen = Garbled
      /\ isConnected
      /\ store[StaleKey(t)] # Absent
      /\ Decodable(store[StaleKey(t)].val))
     => cacheCall.result = [data |-> Parse(store[StaleKey(t)].val),
                            isStale |-> TRUE]

\* C38: a step that writes a fresh-tier key either caches the response of
\* the request that has just been answered under the key of that request,
\* or writes the composite availability entry for a query none of whose
\* calls got its data from the stale tier.
C38_FreshWritesComeFromUpstream ==
  [][\A t \in ClientTargets \cup {AvailabilityTarget} :
       (/\ store'[FreshKey(t)] # store[FreshKey(t)]
        /\ store'[FreshKey(t)] # Absent)
       => \/ /\ t \in ClientTargets
             /\ client.fetch[t] /\ ~client'.fetch[t]
             /\ store'[FreshKey(t)].val = Serialize(Response(t))
          \/ /\ t = AvailabilityTarget
             /\ \E c \in Clients :
                  /\ client.call[c].pc = "settled"
                  /\ client'.call[c].pc = "idle"
                  /\ ~client.call[c].usedStale]_vars
====
